---- MODULE Spec2Model ----
(***************************************************************************)
(* Model of the power_monitor backend: alert ingestion and acknowledgement, *)
(* report generation, and the notification dispatcher (WhatsApp records,   *)
(* e-mail sends, delivery flags).  Tables are sequences of rows indexed by *)
(* primary key; a request that blocks on the WhatsApp provider is split at *)
(* the provider call, so that the PENDING record it has already written is *)
(* a state of the model.  Measurements (power and battery readings), the  *)
(* daily aggregation of readings into DailyConsumption rows and the report *)
(* statistics computed from them are modelled with exact fractions in the  *)
(* place of floats.                                                        *)
(***************************************************************************)
EXTENDS Integers, Sequences, FiniteSets, TLC

VARIABLES
    settings,   \* TWILIO_* and EMAIL_* configuration, as the services read it
    clients,    \* Client table: id -> row
    devices,    \* Device table
    alerts,     \* Alert table
    reports,    \* EnergyReport table
    messages,   \* WhatsAppMessage table
    twilio,     \* the provider's side: every messages.create call and its outcome
    smtp,       \* the mail transport's side: every email.send call and its outcome
    pc,         \* where the request being served stands
    frame,      \* the local variables of the request being served
    response,   \* what the last finished request returned
    readings,           \* PowerReading table
    battery_readings,   \* BatteryReading table
    daily_consumption,  \* DailyConsumption table
    runs                \* the aggregation runs (generate_daily_consumption calls)

vars == <<settings, clients, devices, alerts, reports, messages, twilio, smtp,
          pc, frame, response, readings, battery_readings, daily_consumption, runs>>

\* The measurement tables and the runs that aggregate them.
telemetry == <<readings, battery_readings, daily_consumption, runs>>

----------------------------------------------------------------------------
\* Bounds of the model.

MaxAlerts == 1

MaxMessages == 2

MaxReports == 1

MaxMails == 1

\* Aggregation runs started, and the --days argument of a run.
MaxRuns == 2

MaxDays == 2

\* PowerReading and BatteryReading rows ingested.
MaxReadings == 2

MaxBattery == 1

\* timezone.now().date() while the model runs, as a day number.
Today == 30

----------------------------------------------------------------------------
\* Values.

NoneId == "None"

NoData == [kind |-> "null"]

NoNumber == [pfx |-> "", num |-> ""]

NoFrame == [op |-> "none"]

NoResponse == [op |-> "none", code |-> 0]

NoReport == [none |-> TRUE]

NoDate == -1

NoResults == [email |-> "none", whatsapp |-> "none"]

DeviceOrder == <<"default", "inv-1", "inv-2">>

Severities == {"INFO", "WARNING", "CRITICAL"}

ClientOrder == <<"c1", "c2">>

\* Python truthiness of a phone number string.
Truthy(number) == ~(number.pfx = "" /\ number.num = "")

\* whatsapp_service.py:159-160
WithWhatsAppPrefix(to_number) ==
    IF to_number.pfx = "whatsapp:" THEN to_number
    ELSE [pfx |-> "whatsapp:", num |-> to_number.num]

MockRecipient == [pfx |-> "whatsapp:", num |-> "+1234567890"]

Range(s) == {s[i] : i \in DOMAIN s}

\* FloatField values are kept exact, as fractions num/den in lowest terms with
\* den > 0.
RECURSIVE GCD(_, _)
GCD(a, b) == IF b = 0 THEN a ELSE GCD(b, a % b)

Abs(x) == IF x < 0 THEN -x ELSE x

Frac(n, d) ==
    LET g == GCD(Abs(n), d)
    IN  [num |-> n \div g, den |-> d \div g]

Zero == Frac(0, 1)

FracAdd(a, b) == Frac(a.num * b.den + b.num * a.den, a.den * b.den)

FracMul(a, b) == Frac(a.num * b.num, a.den * b.den)

\* a / k for an integer k > 0
FracDiv(a, k) == Frac(a.num, a.den * k)

FracLeq(a, b) == a.num * b.den <= b.num * a.den

\* Python's max(a, b): b only if it is greater
FracMax(a, b) == IF FracLeq(b, a) THEN a ELSE b

\* Python's min(a, b): b only if it is smaller
FracMin(a, b) == IF FracLeq(a, b) THEN a ELSE b

\* device.device_name
DeviceName(device_id) ==
    (CHOOSE row \in Range(devices) : row.device_id = device_id).device_name

\* Device.objects.get_or_create(device_id=..., defaults={'device_name': ...})
GetOrCreateDevice(table, device_id, device_name) ==
    IF \E i \in DOMAIN table : table[i].device_id = device_id THEN table
    ELSE Append(table, [device_id |-> device_id, device_name |-> device_name])

\* request.data.get('device_name', 'Unknown Device')
PayloadDeviceName(device_name) ==
    IF device_name = NoneId THEN "Unknown Device" ELSE device_name

\* The identifiers that have a Device row.
DeviceIds == {devices[i].device_id : i \in DOMAIN devices}

\* No measurement stored and no aggregation run started.
NoTelemetry ==
    /\ readings = <<>>
    /\ battery_readings = <<>>
    /\ daily_consumption = <<>>
    /\ runs = <<>>

\* request.data.get('device_id', 'default')
PayloadDeviceId(device_id) == IF device_id = NoneId THEN "default" ELSE device_id

RECURSIVE Flatten(_)
Flatten(ss) == IF ss = <<>> THEN <<>> ELSE Head(ss) \o Flatten(Tail(ss))

\* The ids of a queryset of alerts in Meta.ordering = ['-timestamp'] order:
\* newest (largest id) first.
RECURSIVE NewestFirst(_)
NewestFirst(S) ==
    IF S = {} THEN <<>>
    ELSE LET m == CHOOSE x \in S : \A y \in S : y <= x
         IN  <<m>> \o NewestFirst(S \ {m})

----------------------------------------------------------------------------
\* Alert rows and the alert life cycle.

\* serializer.save(device=device, device_identifier=device_id), model defaults
NewAlert(device_id, severity) ==
    [device |-> device_id, device_identifier |-> device_id, severity |-> severity,
     status |-> "ACTIVE", timestamp |-> Today, resolved_at |-> "None",
     whatsapp_sent |-> FALSE, whatsapp_sent_at |-> "None"]

\* views.py:330-332
AcknowledgeAlert(alert) == [alert EXCEPT !.status = "ACKNOWLEDGED"]

\* views.py:338-341
ResolveAlert(alert) == [alert EXCEPT !.status = "RESOLVED", !.resolved_at = "now"]

\* admin.py:52
UpdateAcknowledged(alert) == [alert EXCEPT !.status = "ACKNOWLEDGED"]

\* admin.py:57
UpdateResolved(alert) == [alert EXCEPT !.status = "RESOLVED", !.resolved_at = "now"]

----------------------------------------------------------------------------
\* WhatsApp dispatcher.

\* WhatsAppMessage.objects.create(..., status='PENDING')
PendingMessage(to_number, message_type, alert_id, client_id) ==
    [recipient |-> WithWhatsAppPrefix(to_number), message_type |-> message_type,
     status |-> "PENDING", alert |-> alert_id, client |-> client_id,
     response_data |-> NoData, sent_at |-> "None"]

\* _create_mock_message
MockMessage(alert_id, client_id) ==
    [recipient |-> IF client_id # NoneId THEN clients[client_id].whatsapp_number
                   ELSE MockRecipient,
     message_type |-> "alert", status |-> "SENT", alert |-> alert_id,
     client |-> client_id, response_data |-> NoData, sent_at |-> "now"]

\* The try branch after messages.create returned message_obj (sid = call).
SendMessageSuccess(wa_message, call) ==
    [msg |-> [wa_message EXCEPT !.status = "SENT", !.sent_at = "now",
                  !.response_data = [kind |-> "sent", sid |-> call, status |-> "queued"]],
     raised |-> FALSE]

\* Mutants of the except branch: the FAILED status is never saved; the
\* exception is raised again.
SendMessageExceptUnsaved(wa_message, call) == [msg |-> wa_message, raised |-> FALSE]

SendMessageReraise(wa_message, call) == [msg |-> wa_message, raised |-> TRUE]

\* The except branch: e is the exception raised by provider call number `call`.
SendMessageExcept(wa_message, call) ==
    [msg |-> [wa_message EXCEPT !.status = "FAILED",
                  !.response_data = [kind |-> "error", error |-> call]],
     raised |-> FALSE]

\* whatsapp_service.py:194-197
MarkAlertSent(alert) ==
    [alert EXCEPT !.whatsapp_sent = TRUE, !.whatsapp_sent_at = "now"]

\* Mutant: inactive clients of the device are recipients too.
GetAlertRecipientsInactiveToo(alert, client_id) ==
    IF client_id # NoneId
    THEN IF clients[client_id].receive_whatsapp_alerts
            /\ Truthy(clients[client_id].whatsapp_number)
         THEN <<[phone |-> clients[client_id].whatsapp_number, client |-> client_id]>>
         ELSE <<>>
    ELSE IF alert.device # NoneId
         THEN LET eligible(c) ==
                      /\ alert.device \in clients[c].devices
                      /\ clients[c].receive_whatsapp_alerts
                      /\ Truthy(clients[c].whatsapp_number)
                  ids == SelectSeq(ClientOrder, eligible)
              IN  [i \in 1..Len(ids) |->
                      [phone |-> clients[ids[i]].whatsapp_number, client |-> ids[i]]]
         ELSE <<>>

\* _get_alert_recipients
GetAlertRecipients(alert, client_id) ==
    IF client_id # NoneId
    THEN IF clients[client_id].receive_whatsapp_alerts
            /\ Truthy(clients[client_id].whatsapp_number)
         THEN <<[phone |-> clients[client_id].whatsapp_number, client |-> client_id]>>
         ELSE <<>>
    ELSE IF alert.device # NoneId
         THEN LET eligible(c) ==
                      /\ alert.device \in clients[c].devices
                      /\ clients[c].receive_whatsapp_alerts
                      /\ clients[c].is_active
                      /\ Truthy(clients[c].whatsapp_number)
                  ids == SelectSeq(ClientOrder, eligible)
              IN  [i \in 1..Len(ids) |->
                      [phone |-> clients[ids[i]].whatsapp_number, client |-> ids[i]]]
         ELSE <<>>

\* Mutant: every recipient is tried a second time.
AlertJobsTwice(alert_id, alert) ==
    LET rs == GetAlertRecipients(alert, NoneId) \o GetAlertRecipients(alert, NoneId)
    IN  [i \in 1..Len(rs) |->
            [alert |-> alert_id, phone |-> rs[i].phone, client |-> rs[i].client]]

\* The provider calls send_alert_message(alert) will make, in order.
AlertJobs(alert_id, alert) ==
    LET rs == GetAlertRecipients(alert, NoneId)
    IN  [i \in 1..Len(rs) |->
            [alert |-> alert_id, phone |-> rs[i].phone, client |-> rs[i].client]]

\* Mutant: WARNING alerts are not pushed.
ShouldNotifyCriticalOnly(alert) == alert.severity = "CRITICAL"

\* views.py:300
ShouldNotify(alert) == alert.severity \in {"WARNING", "CRITICAL"}

----------------------------------------------------------------------------
\* Requests on alerts.  A request runs from "idle" to "idle"; while it waits
\* for the provider, pc = "wa_alert" and frame holds its local variables:
\* copies (the Alert objects it loaded), jobs (the sends still to make, the
\* current one first), msg (the id of the record just created).

AlertIds == 1..Len(alerts)

\* The records send_alert_message creates for the alerts `ids`, in order.
AlertSendJobs(ids, table) ==
    Flatten([i \in 1..Len(ids) |-> AlertJobs(ids[i], table[ids[i]])])

RecordsNeeded(ids, table) ==
    IF settings.wa_enabled THEN Len(AlertSendJobs(ids, table)) ELSE Len(ids)

\* send_alert_message for each alert of `ids`, up to the first provider call.
BeginAlertSends(ids, table, resp) ==
    IF ~settings.wa_enabled
    THEN /\ messages' = messages \o [i \in 1..Len(ids) |-> MockMessage(ids[i], NoneId)]
         /\ pc' = "idle"
         /\ frame' = NoFrame
         /\ response' = resp
    ELSE LET jobs == AlertSendJobs(ids, table)
         IN  IF jobs = <<>>
             THEN /\ messages' = messages
                  /\ pc' = "idle"
                  /\ frame' = NoFrame
                  /\ response' = resp
             ELSE /\ messages' = Append(messages,
                          PendingMessage(jobs[1].phone, "alert", jobs[1].alert, jobs[1].client))
                  /\ pc' = "wa_alert"
                  /\ frame' = [op |-> resp.op, copies |-> [i \in Range(ids) |-> table[i]],
                               jobs |-> jobs, msg |-> Len(messages) + 1, resp |-> resp]
                  /\ response' = response

\* AlertViewSet.create and _send_whatsapp_alert
AlertCreate(device_id, device_name, severity, valid) ==
    /\ pc = "idle"
    /\ Len(alerts) < MaxAlerts
    /\ LET dev == PayloadDeviceId(device_id)
           alert == NewAlert(dev, severity)
           id == Len(alerts) + 1
           table == Append(alerts, alert)
           created == [op |-> "alert_create", code |-> 201, alert |-> id]
       IN  /\ devices' = GetOrCreateDevice(devices, dev, PayloadDeviceName(device_name))
           /\ IF ~valid
              THEN /\ response' = [op |-> "alert_create", code |-> 400, alert |-> 0]
                   /\ UNCHANGED <<alerts, messages, pc, frame>>
              ELSE /\ alerts' = table
                   /\ IF ShouldNotify(alert)
                      THEN /\ Len(messages) + RecordsNeeded(<<id>>, table) <= MaxMessages
                           /\ BeginAlertSends(<<id>>, table, created)
                      ELSE /\ response' = created
                           /\ UNCHANGED <<messages, pc, frame>>
    /\ UNCHANGED <<telemetry, settings, clients, reports, twilio, smtp>>

\* The provider call of _send_message returns (ok) or raises (~ok), and the
\* request runs on to its next provider call or to its end.
AlertSendReturns(ok) ==
    /\ pc = "wa_alert"
    /\ LET job == Head(frame.jobs)
           call == Len(twilio) + 1
           out == IF ok THEN SendMessageSuccess(messages[frame.msg], call)
                        ELSE SendMessageExcept(messages[frame.msg], call)
           copy == IF ok THEN MarkAlertSent(frame.copies[job.alert])
                         ELSE frame.copies[job.alert]
           saved == [messages EXCEPT ![frame.msg] = out.msg]
           rest == Tail(frame.jobs)
       IN  /\ twilio' = Append(twilio, [to |-> messages[frame.msg].recipient, ok |-> ok])
           /\ alerts' = IF ok THEN [alerts EXCEPT ![job.alert] = copy] ELSE alerts
           /\ IF out.raised
              THEN /\ messages' = saved
                   /\ pc' = "idle"
                   /\ frame' = NoFrame
                   /\ response' = [op |-> frame.op, code |-> 500]
              ELSE IF rest = <<>>
              THEN /\ messages' = saved
                   /\ pc' = "idle"
                   /\ frame' = NoFrame
                   /\ response' = frame.resp
              ELSE /\ messages' = Append(saved,
                          PendingMessage(rest[1].phone, "alert", rest[1].alert, rest[1].client))
                   /\ pc' = "wa_alert"
                   /\ frame' = [frame EXCEPT !.jobs = rest, !.msg = Len(messages) + 1,
                                             !.copies[job.alert] = copy]
                   /\ response' = response
    /\ UNCHANGED <<telemetry, settings, clients, devices, reports, smtp>>

\* AlertViewSet.acknowledge
Acknowledge(id) ==
    /\ pc = "idle"
    /\ id \in AlertIds
    /\ alerts' = [alerts EXCEPT ![id] = AcknowledgeAlert(alerts[id])]
    /\ response' = [op |-> "acknowledge", code |-> 200]
    /\ UNCHANGED <<telemetry, settings, clients, devices, reports, messages, twilio, smtp, pc, frame>>

\* AlertViewSet.resolve
Resolve(id) ==
    /\ pc = "idle"
    /\ id \in AlertIds
    /\ alerts' = [alerts EXCEPT ![id] = ResolveAlert(alerts[id])]
    /\ response' = [op |-> "resolve", code |-> 200]
    /\ UNCHANGED <<telemetry, settings, clients, devices, reports, messages, twilio, smtp, pc, frame>>

\* AlertAdmin.mark_acknowledged on the selected alerts
AdminMarkAcknowledged(S) ==
    /\ pc = "idle"
    /\ S # {} /\ S \subseteq AlertIds
    /\ alerts' = [i \in AlertIds |-> IF i \in S THEN UpdateAcknowledged(alerts[i]) ELSE alerts[i]]
    /\ response' = [op |-> "admin", code |-> 302]
    /\ UNCHANGED <<telemetry, settings, clients, devices, reports, messages, twilio, smtp, pc, frame>>

\* AlertAdmin.mark_resolved on the selected alerts
AdminMarkResolved(S) ==
    /\ pc = "idle"
    /\ S # {} /\ S \subseteq AlertIds
    /\ alerts' = [i \in AlertIds |-> IF i \in S THEN UpdateResolved(alerts[i]) ELSE alerts[i]]
    /\ response' = [op |-> "admin", code |-> 302]
    /\ UNCHANGED <<telemetry, settings, clients, devices, reports, messages, twilio, smtp, pc, frame>>

\* AlertAdmin.resend_whatsapp on the selected alerts
AdminResendWhatsapp(S) ==
    /\ pc = "idle"
    /\ S # {} /\ S \subseteq AlertIds
    /\ Len(messages) + RecordsNeeded(NewestFirst(S), alerts) <= MaxMessages
    /\ BeginAlertSends(NewestFirst(S), alerts,
                       [op |-> "admin", code |-> 302])
    /\ UNCHANGED <<telemetry, settings, clients, devices, alerts, reports, twilio, smtp>>

\* The configurations the alert requests are checked under: two clients; the
\* first is eligible for alerts or fails exactly one of the three conditions
\* (number, preference, active), the second is eligible, attached or not.
AlertClientRows1 ==
    {r \in [email : {"a@x"}, whatsapp_number : {NoNumber, [pfx |-> "", num |-> "+2348"]},
            devices : {{"inv-1"}}, is_active : BOOLEAN,
            receive_whatsapp_alerts : BOOLEAN, receive_email_reports : {TRUE}] :
        Cardinality({x \in {1, 2, 3} :
            \/ x = 1 /\ ~Truthy(r.whatsapp_number)
            \/ x = 2 /\ ~r.receive_whatsapp_alerts
            \/ x = 3 /\ ~r.is_active}) <= 1}

AlertClientRows2 ==
    [email : {"b@x"}, whatsapp_number : {[pfx |-> "", num |-> "+2349"]},
     devices : {{}, {"inv-1"}}, is_active : {TRUE},
     receive_whatsapp_alerts : {TRUE}, receive_email_reports : {TRUE}]

InitAlert ==
    /\ settings \in [wa_enabled : BOOLEAN, email_enabled : {FALSE}]
    /\ clients \in {[c \in {"c1", "c2"} |-> IF c = "c1" THEN r1 ELSE r2] :
                        r1 \in AlertClientRows1, r2 \in AlertClientRows2}
    /\ devices = <<[device_id |-> "inv-1", device_name |-> "Inverter 1"]>>
    /\ NoTelemetry
    /\ alerts = <<>>
    /\ reports = <<>>
    /\ messages = <<>>
    /\ twilio = <<>>
    /\ smtp = <<>>
    /\ pc = "idle"
    /\ frame = NoFrame
    /\ response = NoResponse

NextAlert ==
    \/ \E device_id \in {NoneId, "inv-1"}, severity \in Severities, valid \in BOOLEAN :
           AlertCreate(device_id, NoneId, severity, valid)
    \/ \E ok \in BOOLEAN : AlertSendReturns(ok)
    \/ \E id \in AlertIds : Acknowledge(id)
    \/ \E id \in AlertIds : Resolve(id)
    \/ \E S \in SUBSET AlertIds : AdminMarkAcknowledged(S)
    \/ \E S \in SUBSET AlertIds : AdminMarkResolved(S)
    \/ \E S \in SUBSET AlertIds : AdminResendWhatsapp(S)

SpecAlert == InitAlert /\ [][NextAlert]_vars

----------------------------------------------------------------------------
\* Report generation (ReportService.generate_report).

\* Mutant: the weekly period starts seven days back.
GetDateRangeSevenBack(report_type) ==
    LET end_date == Today
    IN  IF report_type = "DAILY" THEN <<end_date, end_date>>
        ELSE IF report_type = "MONTHLY" THEN <<end_date - 29, end_date>>
        ELSE <<end_date - 7, end_date>>

\* _get_date_range
GetDateRange(report_type) ==
    LET end_date == Today
    IN  IF report_type = "DAILY" THEN <<end_date, end_date>>
        ELSE IF report_type = "WEEKLY" THEN <<end_date - 6, end_date>>
        ELSE IF report_type = "MONTHLY" THEN <<end_date - 29, end_date>>
        ELSE <<end_date - 6, end_date>>

\* report_service.py:21-22
ReportPeriod(report_type, start_date, end_date) ==
    IF start_date = NoDate \/ end_date = NoDate
    THEN GetDateRange(report_type)
    ELSE <<start_date, end_date>>

\* report_service.py:25
ReportDevices(client_id, device) ==
    IF device # NoneId THEN <<device>>
    ELSE SelectSeq(DeviceOrder, LAMBDA d : d \in clients[client_id].devices)

\* Mutant: the empty device set is not rejected.
NoDevicesNever(devs) == FALSE

\* report_service.py:27
NoDevices(devs) == devs = <<>>

\* The rows of a table that a filter(device=..., <date>__range=[start, end])
\* keeps, as the set of their ids.
InRange(table, device, start_date, end_date, date_field) ==
    {i \in DOMAIN table :
        /\ table[i].device = device
        /\ start_date <= table[i][date_field]
        /\ table[i][date_field] <= end_date}

\* The values of a column of the DailyConsumption rows `ids`.
Column(ids, field) ==
    LET order == NewestFirst(ids)
    IN  [k \in 1..Len(order) |-> daily_consumption[order[k]][field]]

\* Sum('field') followed by `or 0`: the Sum of no row is None, and None or 0
\* is 0.
RECURSIVE SumOrZero(_)
SumOrZero(xs) == IF xs = <<>> THEN Zero ELSE FracAdd(Head(xs), SumOrZero(Tail(xs)))

RECURSIVE MaxOf(_)
MaxOf(xs) == IF Len(xs) = 1 THEN Head(xs) ELSE FracMax(Head(xs), MaxOf(Tail(xs)))

\* Max('field') followed by `or 0`
MaxOrZero(xs) == IF xs = <<>> THEN Zero ELSE MaxOf(xs)

\* readings.values_list('power_factor', flat=True), in Meta.ordering order
PowerFactors(ids) ==
    LET order == NewestFirst(ids)
    IN  [k \in 1..Len(order) |-> readings[order[k]].power_factor]

\* Mutant: the critical alerts of every device are counted.
GetDeviceStatisticsAnyDevice(device, start_date, end_date) ==
    LET consumption_records ==
            InRange(daily_consumption, device, start_date, end_date, "date")
        rs == InRange(readings, device, start_date, end_date, "date")
        als == InRange(alerts, device, start_date, end_date, "timestamp")
    IN  [device_id |-> device,
         device_name |-> DeviceName(device),
         consumption |-> SumOrZero(Column(consumption_records, "total_consumption")),
         cost |-> SumOrZero(Column(consumption_records, "total_cost")),
         peak_power |-> MaxOrZero(Column(consumption_records, "peak_power")),
         power_factors |-> PowerFactors(rs),
         uptime |-> Frac(Cardinality(rs) * 5, 60),
         alerts |-> Cardinality(als),
         critical_alerts |->
             Cardinality({i \in DOMAIN alerts :
                             /\ alerts[i].severity = "CRITICAL"
                             /\ alerts[i].timestamp >= start_date
                             /\ alerts[i].timestamp <= end_date})]

\* _get_device_statistics
GetDeviceStatistics(device, start_date, end_date) ==
    LET consumption_records ==
            InRange(daily_consumption, device, start_date, end_date, "date")
        rs == InRange(readings, device, start_date, end_date, "date")
        als == InRange(alerts, device, start_date, end_date, "timestamp")
    IN  [device_id |-> device,
         device_name |-> DeviceName(device),
         consumption |-> SumOrZero(Column(consumption_records, "total_consumption")),
         cost |-> SumOrZero(Column(consumption_records, "total_cost")),
         peak_power |-> MaxOrZero(Column(consumption_records, "peak_power")),
         power_factors |-> PowerFactors(rs),
         uptime |-> Frac(Cardinality(rs) * 5, 60),
         alerts |-> Cardinality(als),
         critical_alerts |-> Cardinality({i \in als : alerts[i].severity = "CRITICAL"})]

\* report_service.py:32-39
NoTotals ==
    [total_consumption |-> Zero, total_cost |-> Zero, peak_power |-> Zero,
     power_factors |-> <<>>, uptime_hours |-> Zero, total_alerts |-> 0,
     critical_alerts |-> 0, device_data |-> <<>>]

\* Mutant: the peak of the last device replaces the peak so far.
AddDeviceLastPeak(totals, device_stats) ==
    [total_consumption |-> FracAdd(totals.total_consumption, device_stats.consumption),
     total_cost |-> FracAdd(totals.total_cost, device_stats.cost),
     peak_power |-> device_stats.peak_power,
     power_factors |-> totals.power_factors \o device_stats.power_factors,
     uptime_hours |-> FracAdd(totals.uptime_hours, device_stats.uptime),
     total_alerts |-> totals.total_alerts + device_stats.alerts,
     critical_alerts |-> totals.critical_alerts + device_stats.critical_alerts,
     device_data |-> Append(totals.device_data, device_stats)]

\* report_service.py:43-51: one pass of the loop over the devices
AddDevice(totals, device_stats) ==
    [total_consumption |-> FracAdd(totals.total_consumption, device_stats.consumption),
     total_cost |-> FracAdd(totals.total_cost, device_stats.cost),
     peak_power |-> FracMax(totals.peak_power, device_stats.peak_power),
     power_factors |-> totals.power_factors \o device_stats.power_factors,
     uptime_hours |-> FracAdd(totals.uptime_hours, device_stats.uptime),
     total_alerts |-> totals.total_alerts + device_stats.alerts,
     critical_alerts |-> totals.critical_alerts + device_stats.critical_alerts,
     device_data |-> Append(totals.device_data, device_stats)]

\* report_service.py:41-51
RECURSIVE Aggregate(_, _, _, _)
Aggregate(devs, start_date, end_date, totals) ==
    IF devs = <<>> THEN totals
    ELSE Aggregate(Tail(devs), start_date, end_date,
                   AddDevice(totals, GetDeviceStatistics(Head(devs), start_date, end_date)))

RECURSIVE SumSeq(_)
SumSeq(xs) == IF xs = <<>> THEN 0 ELSE Head(xs) + SumSeq(Tail(xs))

\* Mutant: the period is counted exclusive of its first day.
AvgDailyConsumptionExclusive(total_consumption, days_in_period) ==
    IF days_in_period - 1 > 0 THEN FracDiv(total_consumption, days_in_period - 1) ELSE Zero

\* report_service.py:55
AvgDailyConsumption(total_consumption, days_in_period) ==
    IF days_in_period > 0 THEN FracDiv(total_consumption, days_in_period) ELSE Zero

\* Mutant: the mean of the per-device means.
AvgPowerFactorOfMeans(totals) ==
    LET with == SelectSeq(totals.device_data, LAMBDA d : d.power_factors # <<>>)
        means == [k \in 1..Len(with) |->
                     Frac(SumSeq(with[k].power_factors), Len(with[k].power_factors))]
        RECURSIVE Total(_)
        Total(k) == IF k = 0 THEN Zero ELSE FracAdd(means[k], Total(k - 1))
    IN  IF with = <<>> THEN Zero ELSE FracDiv(Total(Len(with)), Len(with))

\* report_service.py:56
AvgPowerFactor(totals) ==
    IF totals.power_factors # <<>>
    THEN Frac(SumSeq(totals.power_factors), Len(totals.power_factors))
    ELSE Zero

\* generate_report: the row it creates, or NoReport when it returns None.
GenerateReport(client_id, report_type, device, start_date, end_date) ==
    LET period == ReportPeriod(report_type, start_date, end_date)
        devs == ReportDevices(client_id, device)
        totals == Aggregate(devs, period[1], period[2], NoTotals)
        days_in_period == period[2] - period[1] + 1
    IN  IF NoDevices(devs) THEN NoReport
        ELSE [client |-> client_id, device |-> device, report_type |-> report_type,
              start_date |-> period[1], end_date |-> period[2],
              total_consumption_kwh |-> totals.total_consumption,
              total_cost |-> totals.total_cost,
              avg_daily_consumption |->
                  AvgDailyConsumption(totals.total_consumption, days_in_period),
              peak_power |-> totals.peak_power,
              avg_power_factor |-> AvgPowerFactor(totals),
              uptime_hours |-> totals.uptime_hours,
              total_alerts |-> totals.total_alerts,
              critical_alerts |-> totals.critical_alerts,
              report_data |-> [devices |-> totals.device_data,
                               days_in_period |-> days_in_period,
                               generated_by |-> "system"],
              sent_via_email |-> FALSE, sent_via_whatsapp |-> FALSE]

----------------------------------------------------------------------------
\* Report delivery (ReportService.send_report and the two channel services).

\* EmailService.send_report_email: what it returns, the report object as it
\* leaves it, whether it saved it, and the transport calls it made.
SendReportEmail(report, mail_ok) ==
    IF ~settings.email_enabled
    THEN [result |-> "True", report |-> report, saved |-> FALSE, calls |-> <<>>]
    ELSE IF clients[report.client].email = ""
    THEN [result |-> "None", report |-> report, saved |-> FALSE, calls |-> <<>>]
    ELSE IF ~clients[report.client].receive_email_reports
    THEN [result |-> "None", report |-> report, saved |-> FALSE, calls |-> <<>>]
    ELSE IF mail_ok
    THEN [result |-> "True", report |-> [report EXCEPT !.sent_via_email = TRUE],
          saved |-> TRUE,
          calls |-> <<[to |-> clients[report.client].email, ok |-> TRUE]>>]
    ELSE [result |-> "False", report |-> report, saved |-> FALSE,
          calls |-> <<[to |-> clients[report.client].email, ok |-> FALSE]>>]

\* report_service.py:146
EmailRequested(report, via_email) ==
    via_email /\ clients[report.client].receive_email_reports

\* Mutant: a delivered e-mail marks both channels as sent.
RecordEmailResultBothFlags(report, email_result) ==
    IF email_result = "True"
    THEN [report EXCEPT !.sent_via_email = TRUE, !.sent_via_whatsapp = TRUE]
    ELSE report

\* report_service.py:151-153
RecordEmailResult(report, email_result) ==
    IF email_result = "True" THEN [report EXCEPT !.sent_via_email = TRUE] ELSE report

\* report_service.py:151-156
EmailResultEntry(email_result) == IF email_result = "True" THEN "sent" ELSE "failed"

\* report_service.py:159
WhatsAppRequested(report, via_whatsapp) ==
    via_whatsapp /\ clients[report.client].receive_whatsapp_alerts

\* send_report_summary: whether it reaches _send_message (else it returns None)
SummaryIsSent(report) ==
    settings.wa_enabled /\ clients[report.client].receive_whatsapp_alerts

\* Mutant: recording the WhatsApp send clears the e-mail flag.
RecordWhatsAppResultClearsEmail(report, wa_result) ==
    IF wa_result # 0
    THEN [report EXCEPT !.sent_via_whatsapp = TRUE, !.sent_via_email = FALSE]
    ELSE report

\* report_service.py:164-166; wa_result is the record's id, 0 for None
RecordWhatsAppResult(report, wa_result) ==
    IF wa_result # 0 THEN [report EXCEPT !.sent_via_whatsapp = TRUE] ELSE report

\* report_service.py:164-169
WhatsAppResultEntry(wa_result) == IF wa_result # 0 THEN "sent" ELSE "failed"

\* send_report for each job of w.queue, up to the first provider call.  A job
\* is [id, report, via_email, via_whatsapp, mail_ok]: the report object the
\* caller loaded, the channel flags, and what the mail transport will do.
RECURSIVE RunSendReport(_)
RunSendReport(w) ==
    IF w.queue = <<>> THEN w
    ELSE
    LET job == Head(w.queue)
        wanted == EmailRequested(job.report, job.via_email)
        mail == IF wanted THEN SendReportEmail(job.report, job.mail_ok)
                ELSE [result |-> "None", report |-> job.report, saved |-> FALSE,
                      calls |-> <<>>]
        r1 == IF wanted THEN RecordEmailResult(mail.report, mail.result) ELSE job.report
        table1 == IF mail.saved \/ (wanted /\ mail.result = "True")
                  THEN [w.reports EXCEPT ![job.id] = r1] ELSE w.reports
        res1 == [email |-> IF wanted THEN EmailResultEntry(mail.result) ELSE "none",
                 whatsapp |-> "none"]
        w1 == [w EXCEPT !.reports = table1, !.smtp = @ \o mail.calls,
                        !.queue = Tail(w.queue)]
    IN  IF WhatsAppRequested(r1, job.via_whatsapp)
        THEN IF SummaryIsSent(r1)
             THEN [w1 EXCEPT !.messages = Append(@,
                                  PendingMessage(clients[r1.client].whatsapp_number,
                                                 "report", 0, r1.client)),
                             !.blocked = TRUE,
                             !.cur = [id |-> job.id, report |-> r1, results |-> res1]]
             ELSE RunSendReport([w1 EXCEPT !.results =
                                     [res1 EXCEPT !.whatsapp = WhatsAppResultEntry(0)]])
        ELSE RunSendReport([w1 EXCEPT !.results = res1])

NoJob == [id |-> 0, report |-> NoReport, results |-> NoResults]

World(table, queue) ==
    [reports |-> table, messages |-> messages, smtp |-> smtp, queue |-> queue,
     results |-> NoResults, blocked |-> FALSE, cur |-> NoJob]

\* What the request returns once its sends are over.
Returned(resp, results) ==
    IF resp.op = "send" THEN [resp EXCEPT !.results = results] ELSE resp

\* The state a request is left in by RunSendReport.
Settle(w, op, resp) ==
    /\ reports' = w.reports
    /\ messages' = w.messages
    /\ smtp' = w.smtp
    /\ IF w.blocked
       THEN /\ pc' = "wa_report"
            /\ frame' = [op |-> op, cur |-> w.cur, queue |-> w.queue,
                         msg |-> Len(w.messages), resp |-> resp]
            /\ response' = response
       ELSE /\ pc' = "idle"
            /\ frame' = NoFrame
            /\ response' = Returned(resp, w.results)

\* The records and the mails the jobs of `queue` will add.
RECURSIVE QueueMessages(_)
QueueMessages(queue) ==
    IF queue = <<>> THEN 0
    ELSE (IF WhatsAppRequested(Head(queue).report, Head(queue).via_whatsapp)
             /\ SummaryIsSent(Head(queue).report) THEN 1 ELSE 0)
         + QueueMessages(Tail(queue))

RECURSIVE QueueMails(_)
QueueMails(queue) ==
    IF queue = <<>> THEN 0
    ELSE (IF EmailRequested(Head(queue).report, Head(queue).via_email)
          THEN Len(SendReportEmail(Head(queue).report, TRUE).calls) ELSE 0)
         + QueueMails(Tail(queue))

WithinCaps(queue) ==
    /\ Len(messages) + QueueMessages(queue) <= MaxMessages
    /\ Len(smtp) + QueueMails(queue) <= MaxMails

ReportIds == 1..Len(reports)

ReportResponse(op, code, req, error, report) ==
    [op |-> op, code |-> code, req |-> req, error |-> error, report |-> report,
     results |-> NoResults]

\* EnergyReportViewSet.generate
Generate(client_id, device_id, report_type, send_whatsapp, send_email, mail_ok) ==
    /\ pc = "idle"
    /\ LET req == [client_id |-> client_id, device_id |-> device_id]
           report == GenerateReport(client_id, report_type, device_id, NoDate, NoDate)
           id == Len(reports) + 1
           queue == <<[id |-> id, report |-> report, via_email |-> send_email,
                       via_whatsapp |-> send_whatsapp, mail_ok |-> mail_ok]>>
           fails(code, error) ==
               /\ response' = ReportResponse("generate", code, req, error, 0)
               /\ UNCHANGED <<reports, messages, smtp, pc, frame>>
       IN  IF client_id \notin DOMAIN clients
           THEN fails(404, "Client not found")
           ELSE IF device_id # NoneId /\ device_id \notin DeviceIds
           THEN fails(404, "Device not found")
           ELSE IF device_id # NoneId /\ device_id \notin clients[client_id].devices
           THEN fails(400, "Device does not belong to this client")
           ELSE IF report = NoReport
           THEN fails(400, "Failed to generate report")
           ELSE /\ Len(reports) < MaxReports
                /\ IF send_whatsapp \/ send_email
                   THEN /\ WithinCaps(queue)
                        /\ Settle(RunSendReport(World(Append(reports, report), queue)),
                                  "generate",
                                  ReportResponse("generate", 201, req, "", id))
                   ELSE /\ reports' = Append(reports, report)
                        /\ response' = ReportResponse("generate", 201, req, "", id)
                        /\ UNCHANGED <<messages, smtp, pc, frame>>
    /\ UNCHANGED <<telemetry, settings, clients, devices, alerts, twilio>>

\* ClientViewSet.generate_report
ClientGenerateReport(client_id, report_type) ==
    /\ pc = "idle"
    /\ LET req == [client_id |-> client_id, device_id |-> NoneId]
           report == GenerateReport(client_id, report_type, NoneId, NoDate, NoDate)
       IN  IF client_id \notin DOMAIN clients
           THEN /\ response' = ReportResponse("client_generate", 404, req, "Not found.", 0)
                /\ UNCHANGED reports
           ELSE IF report = NoReport
           THEN /\ response' = ReportResponse("client_generate", 400, req,
                                              "Failed to generate report", 0)
                /\ UNCHANGED reports
           ELSE /\ Len(reports) < MaxReports
                /\ reports' = Append(reports, report)
                /\ response' = ReportResponse("client_generate", 201, req, "",
                                              Len(reports) + 1)
    /\ UNCHANGED <<telemetry, settings, clients, devices, alerts, messages, twilio, smtp, pc, frame>>

\* EnergyReportViewSet.send
Send(id, send_whatsapp, send_email, mail_ok) ==
    /\ pc = "idle"
    /\ id \in ReportIds
    /\ LET req == [report |-> id, send_whatsapp |-> send_whatsapp,
                   send_email |-> send_email]
           queue == <<[id |-> id, report |-> reports[id], via_email |-> send_email,
                       via_whatsapp |-> send_whatsapp, mail_ok |-> mail_ok]>>
       IN  /\ WithinCaps(queue)
           /\ Settle(RunSendReport(World(reports, queue)), "send",
                     ReportResponse("send", 200, req, "", id))
    /\ UNCHANGED <<telemetry, settings, clients, devices, alerts, twilio>>

\* EnergyReportAdmin.send_via_whatsapp on the selected reports
AdminSendViaWhatsapp(S) ==
    /\ pc = "idle"
    /\ S # {} /\ S \subseteq ReportIds
    /\ LET ids == NewestFirst(S)
           queue == [i \in 1..Len(ids) |->
                        [id |-> ids[i], report |-> reports[ids[i]], via_email |-> FALSE,
                         via_whatsapp |-> TRUE, mail_ok |-> TRUE]]
       IN  /\ WithinCaps(queue)
           /\ Settle(RunSendReport(World(reports, queue)), "admin",
                     [op |-> "admin", code |-> 302])
    /\ UNCHANGED <<telemetry, settings, clients, devices, alerts, twilio>>

\* The provider call of _send_message (made by send_report_summary) returns
\* (ok) or raises (~ok); send_report goes on, and so does the request.
ReportSendReturns(ok) ==
    /\ pc = "wa_report"
    /\ LET call == Len(twilio) + 1
           out == IF ok THEN SendMessageSuccess(messages[frame.msg], call)
                        ELSE SendMessageExcept(messages[frame.msg], call)
           wa_result == frame.msg
           r2 == RecordWhatsAppResult(frame.cur.report, wa_result)
           table2 == IF wa_result # 0 THEN [reports EXCEPT ![frame.cur.id] = r2]
                     ELSE reports
           results == [frame.cur.results EXCEPT !.whatsapp = WhatsAppResultEntry(wa_result)]
           w == [reports |-> table2,
                 messages |-> [messages EXCEPT ![frame.msg] = out.msg],
                 smtp |-> smtp, queue |-> frame.queue, results |-> results,
                 blocked |-> FALSE, cur |-> NoJob]
       IN  /\ twilio' = Append(twilio, [to |-> messages[frame.msg].recipient, ok |-> ok])
           /\ IF out.raised
              THEN /\ messages' = [messages EXCEPT ![frame.msg] = out.msg]
                   /\ pc' = "idle"
                   /\ frame' = NoFrame
                   /\ response' = [frame.resp EXCEPT !.code = 500]
                   /\ UNCHANGED <<reports, smtp>>
              ELSE Settle(RunSendReport(w), frame.op, frame.resp)
    /\ UNCHANGED <<telemetry, settings, clients, devices, alerts>>

\* ReportService.generate_report called directly (a job, a command) with the
\* arguments of its signature; the report it returns is stored, None is not.
GenerateReportCall(client_id, report_type, device, start_date, end_date) ==
    /\ pc = "idle"
    /\ client_id \in DOMAIN clients
    /\ LET report == GenerateReport(client_id, report_type, device, start_date, end_date)
           req == [client_id |-> client_id, device_id |-> device,
                   report_type |-> report_type,
                   start_date |-> start_date, end_date |-> end_date]
       IN  IF report = NoReport
           THEN /\ response' = ReportResponse("generate_report", 0, req, "None", 0)
                /\ UNCHANGED reports
           ELSE /\ Len(reports) < MaxReports
                /\ reports' = Append(reports, report)
                /\ response' = ReportResponse("generate_report", 0, req, "",
                                              Len(reports) + 1)
    /\ UNCHANGED <<telemetry, settings, clients, devices, alerts, messages, twilio, smtp, pc, frame>>

\* What the mail transport may do with a send, when one can be made.
MailOutcomes(send_email) == IF send_email THEN BOOLEAN ELSE {TRUE}

\* The configurations report delivery is checked under: one client with a
\* device and every contact field and preference free.
ReportClientRows ==
    [email : {"", "a@x"}, whatsapp_number : {NoNumber, [pfx |-> "", num |-> "+2348"]},
     devices : {{"inv-1"}}, is_active : {TRUE},
     receive_whatsapp_alerts : BOOLEAN, receive_email_reports : BOOLEAN]

InitReport ==
    /\ settings \in [wa_enabled : BOOLEAN, email_enabled : BOOLEAN]
    /\ clients \in {[c \in {"c1"} |-> r] : r \in ReportClientRows}
    /\ devices = <<[device_id |-> "inv-1", device_name |-> "Inverter"],
                   [device_id |-> "inv-2", device_name |-> "Inverter"]>>
    /\ NoTelemetry
    /\ alerts = <<>>
    /\ reports = <<>>
    /\ messages = <<>>
    /\ twilio = <<>>
    /\ smtp = <<>>
    /\ pc = "idle"
    /\ frame = NoFrame
    /\ response = NoResponse

NextReport ==
    \/ \E send_whatsapp \in BOOLEAN, send_email \in BOOLEAN :
       \E mail_ok \in MailOutcomes(send_email) :
           Generate("c1", NoneId, "WEEKLY", send_whatsapp, send_email, mail_ok)
    \/ \E id \in ReportIds, send_whatsapp \in BOOLEAN, send_email \in BOOLEAN :
       \E mail_ok \in MailOutcomes(send_email) :
           Send(id, send_whatsapp, send_email, mail_ok)
    \/ \E S \in SUBSET ReportIds : AdminSendViaWhatsapp(S)
    \/ \E ok \in BOOLEAN : ReportSendReturns(ok)

SpecReport == InitReport /\ [][NextReport]_vars

----------------------------------------------------------------------------
\* The generation views on their own, for two clients (one with a device, one
\* without) whose preferences are all on.

ViewReportTypes == {"DAILY", "WEEKLY"}

GenerateClient(email, devs) ==
    [email |-> email, whatsapp_number |-> [pfx |-> "", num |-> "+2348"],
     devices |-> devs, is_active |-> TRUE,
     receive_whatsapp_alerts |-> TRUE, receive_email_reports |-> TRUE]

\* The checks of EnergyReportViewSet.generate that end a request before it
\* reads report_type and the send flags (views.py:426-449, None from
\* generate_report); such a request is enumerated with those inputs at their
\* defaults only.
GenerateStopsEarly(client_id, device_id) ==
    \/ client_id \notin DOMAIN clients
    \/ device_id # NoneId /\ device_id \notin DeviceIds
    \/ device_id # NoneId /\ device_id \notin clients[client_id].devices
    \/ GenerateReport(client_id, "WEEKLY", device_id, NoDate, NoDate) = NoReport

TypesRead(client_id, device_id) ==
    IF GenerateStopsEarly(client_id, device_id) THEN {"WEEKLY"} ELSE ViewReportTypes

FlagsRead(client_id, device_id) ==
    IF GenerateStopsEarly(client_id, device_id) THEN {FALSE} ELSE BOOLEAN

InitGenerate ==
    /\ clients = [c \in {"c1", "c2"} |->
                    IF c = "c1" THEN GenerateClient("a@x", {"inv-1"})
                    ELSE GenerateClient("b@x", {})]
    /\ devices = <<[device_id |-> "inv-1", device_name |-> "Inverter"],
                   [device_id |-> "inv-2", device_name |-> "Inverter"]>>
    /\ NoTelemetry
    /\ alerts = <<>>
    /\ reports = <<>>
    /\ messages = <<>>
    /\ twilio = <<>>
    /\ smtp = <<>>
    /\ pc = "idle"
    /\ frame = NoFrame
    /\ response = NoResponse

InitGenerateView ==
    /\ settings \in [wa_enabled : BOOLEAN, email_enabled : {TRUE}]
    /\ InitGenerate

NextGenerateView ==
    \/ \E client_id \in {"c1", "c2", "c9"}, device_id \in {NoneId, "inv-1", "inv-2", "ghost"} :
       \E report_type \in TypesRead(client_id, device_id),
          send_whatsapp \in FlagsRead(client_id, device_id),
          send_email \in FlagsRead(client_id, device_id) :
       \E mail_ok \in MailOutcomes(send_email) :
           Generate(client_id, device_id, report_type, send_whatsapp, send_email, mail_ok)
    \/ \E client_id \in {"c1", "c2", "c9"} :
       \E report_type \in TypesRead(client_id, NoneId) :
           ClientGenerateReport(client_id, report_type)
    \/ \E ok \in BOOLEAN : ReportSendReturns(ok)

SpecGenerateView == InitGenerateView /\ [][NextGenerateView]_vars

----------------------------------------------------------------------------
\* The service function on its own, over the arguments of its signature.

ReportTypes == {"DAILY", "WEEKLY", "MONTHLY", "CUSTOM"}

\* The dates a caller passes: none, or a day of the model's calendar.
CallerDates == {NoDate, Today - 8, Today - 1}

InitGenerateCall ==
    /\ settings = [wa_enabled |-> FALSE, email_enabled |-> FALSE]
    /\ InitGenerate

\* The dates a caller is taken to pass for a client: a call for the client
\* without devices returns None whatever the dates are, and is made without.
DatesFor(client_id) == IF client_id = "c1" THEN CallerDates ELSE {NoDate}

NextGenerateCall ==
    \E client_id \in {"c1", "c2"}, report_type \in ReportTypes :
    \E start_date \in DatesFor(client_id), end_date \in DatesFor(client_id) :
        GenerateReportCall(client_id, report_type, NoneId, start_date, end_date)

SpecGenerate == InitGenerateCall /\ [][NextGenerateCall]_vars

----------------------------------------------------------------------------
\* Daily aggregation (Command.generate_daily_consumption).  A run is
\* [device, rate, days, dates, pc, row, count]: its arguments, the dates it has
\* still to handle (the current one first), where it stands ("create": about
\* to write the row it has computed; "done": returned count; "raised": left by
\* an IntegrityError), and the number of rows it has written.

\* tariffs[0].rate_per_kwh
StandardRate == 65

NoRow == [none |-> TRUE]

RunIds == 1..Len(runs)

\* range(days, 0, -1) as dates
RunDates(days) == [k \in 1..days |-> Today - (days + 1 - k)]

\* PowerReading.objects.filter(device=device, timestamp__range=[day_start, day_end])
DayReadings(device, date) ==
    LET order == NewestFirst({i \in DOMAIN readings :
                                 readings[i].device = device /\ readings[i].date = date})
    IN  [k \in 1..Len(order) |-> readings[order[k]].power]

RECURSIVE MaxSeq(_)
MaxSeq(xs) ==
    IF Len(xs) = 1 THEN Head(xs)
    ELSE LET m == MaxSeq(Tail(xs)) IN IF Head(xs) >= m THEN Head(xs) ELSE m

RECURSIVE MinSeq(_)
MinSeq(xs) ==
    IF Len(xs) = 1 THEN Head(xs)
    ELSE LET m == MinSeq(Tail(xs)) IN IF Head(xs) <= m THEN Head(xs) ELSE m

\* Mutant: the samples are taken as hourly ones.
DayConsumptionRowHourly(device, date, powers, rate) ==
    LET total_consumption == Frac(SumSeq(powers), 1000)
    IN  [device |-> device, device_identifier |-> device, date |-> date,
         total_consumption |-> total_consumption,
         avg_power |-> Frac(SumSeq(powers), Len(powers)),
         peak_power |-> Frac(MaxSeq(powers), 1),
         min_power |-> Frac(MinSeq(powers), 1),
         total_cost |-> FracMul(total_consumption, Frac(rate, 1))]

\* generate_sample_data.py:487-507: the row of a day that has readings
DayConsumptionRow(device, date, powers, rate) ==
    LET total_consumption == Frac(SumSeq(powers) * 5, 60 * 1000)
    IN  [device |-> device, device_identifier |-> device, date |-> date,
         total_consumption |-> total_consumption,
         avg_power |-> Frac(SumSeq(powers), Len(powers)),
         peak_power |-> Frac(MaxSeq(powers), 1),
         min_power |-> Frac(MinSeq(powers), 1),
         total_cost |-> FracMul(total_consumption, Frac(rate, 1))]

\* Mutant: the table has no uniqueness constraint.
ViolatesUniqueTogetherNever(table, row) == FALSE

\* DailyConsumption.Meta.unique_together = ['device_identifier', 'date']
ViolatesUniqueTogether(table, row) ==
    \E i \in DOMAIN table :
        /\ table[i].device_identifier = row.device_identifier
        /\ table[i].date = row.date

\* The run after the current date is dealt with: on to the next, or return.
NextDay(run, count) ==
    [run EXCEPT !.dates = Tail(run.dates), !.row = NoRow, !.count = count,
                !.pc = IF Len(run.dates) = 1 THEN "done" ELSE "fetch"]

\* generate_daily_consumption(device, days, tariff) is called.
StartRun(device, days, rate) ==
    /\ Len(runs) < MaxRuns
    /\ runs' = Append(runs, [device |-> device, rate |-> rate, days |-> days,
                             dates |-> RunDates(days), row |-> NoRow, count |-> 0,
                             pc |-> IF days = 0 THEN "done" ELSE "fetch"])
    /\ UNCHANGED <<settings, clients, devices, alerts, reports, messages, twilio, smtp,
                   pc, frame, response, readings, battery_readings, daily_consumption>>

\* generate_sample_data.py:475-496: the readings of the date are fetched and
\* the statistics computed; a date without readings is passed over.
FetchDay(r) ==
    /\ runs[r].pc = "fetch"
    /\ LET run == runs[r]
           date == Head(run.dates)
           powers == DayReadings(run.device, date)
       IN  runs' = [runs EXCEPT ![r] =
                       IF powers = <<>> THEN NextDay(run, run.count)
                       ELSE [run EXCEPT !.pc = "create",
                                        !.row = DayConsumptionRow(run.device, date,
                                                                  powers, run.rate)]]
    /\ UNCHANGED <<settings, clients, devices, alerts, reports, messages, twilio, smtp,
                   pc, frame, response, readings, battery_readings, daily_consumption>>

\* generate_sample_data.py:498-508: DailyConsumption.objects.create; the
\* IntegrityError of the uniqueness constraint is not caught.
CreateDay(r) ==
    /\ runs[r].pc = "create"
    /\ IF ViolatesUniqueTogether(daily_consumption, runs[r].row)
       THEN /\ runs' = [runs EXCEPT ![r].pc = "raised"]
            /\ UNCHANGED daily_consumption
       ELSE /\ daily_consumption' = Append(daily_consumption, runs[r].row)
            /\ runs' = [runs EXCEPT ![r] = NextDay(runs[r], runs[r].count + 1)]
    /\ UNCHANGED <<settings, clients, devices, alerts, reports, messages, twilio, smtp,
                   pc, frame, response, readings, battery_readings>>

\* The power samples a day of the initial table may hold.
SampleSets == {<<>>, <<120>>, <<120, 300>>}

\* PowerReading rows of one device and day
ReadingRows(device, date, powers) ==
    [k \in 1..Len(powers) |->
        [device |-> device, device_identifier |-> device, date |-> date,
         power |-> powers[k], power_factor |-> 90]]

InitAggregate ==
    /\ settings = [wa_enabled |-> FALSE, email_enabled |-> FALSE]
    /\ clients = [c \in {"c1"} |-> GenerateClient("a@x", {"inv-1"})]
    /\ devices = <<[device_id |-> "inv-1", device_name |-> "Inverter"]>>
    /\ alerts = <<>>
    /\ reports = <<>>
    /\ messages = <<>>
    /\ twilio = <<>>
    /\ smtp = <<>>
    /\ pc = "idle"
    /\ frame = NoFrame
    /\ response = NoResponse
    /\ \E samples \in [1..MaxDays -> SampleSets] :
          readings = Flatten([k \in 1..MaxDays |->
                                 ReadingRows("inv-1", Today - k, samples[k])])
    /\ battery_readings = <<>>
    /\ daily_consumption = <<>>
    /\ runs = <<>>

NextAggregate ==
    \/ \E days \in 1..MaxDays : StartRun("inv-1", days, StandardRate)
    \/ \E r \in RunIds : FetchDay(r)
    \/ \E r \in RunIds : CreateDay(r)

SpecAggregate == InitAggregate /\ [][NextAggregate]_vars

----------------------------------------------------------------------------
\* Report statistics: generate_report over tables that hold measurements.

\* A DailyConsumption row with the given figures (kWh, currency, W).
ConsumptionRow(device, date, total_consumption, total_cost, peak_power) ==
    [device |-> device, device_identifier |-> device, date |-> date,
     total_consumption |-> total_consumption, avg_power |-> peak_power,
     peak_power |-> peak_power, min_power |-> peak_power, total_cost |-> total_cost]

\* A PowerReading row per power-factor sample (in hundredths).
FactorRows(device, date, factors) ==
    [k \in 1..Len(factors) |->
        [device |-> device, device_identifier |-> device, date |-> date,
         power |-> 120, power_factor |-> factors[k]]]

\* The tables the statistics are checked over: two devices of one client;
\* the first has an old reading, and two recent ones or none, and a daily
\* record (of positive or negative power) or none; the second a recent
\* reading or none and a daily record or none; an alert each.
InitStatistics ==
    /\ settings = [wa_enabled |-> FALSE, email_enabled |-> FALSE]
    /\ clients = [c \in {"c1"} |-> GenerateClient("a@x", {"inv-1", "inv-2"})]
    /\ devices = <<[device_id |-> "inv-1", device_name |-> "Inverter"],
                   [device_id |-> "inv-2", device_name |-> "Inverter"]>>
    /\ alerts = <<[NewAlert("inv-1", "CRITICAL") EXCEPT !.timestamp = Today - 1],
                  NewAlert("inv-2", "WARNING")>>
    /\ reports = <<>>
    /\ messages = <<>>
    /\ twilio = <<>>
    /\ smtp = <<>>
    /\ pc = "idle"
    /\ frame = NoFrame
    /\ response = NoResponse
    /\ \E f1 \in {<<>>, <<80, 100>>}, f2 \in {<<>>, <<60>>} :
          readings = FactorRows("inv-1", Today - 20, <<50>>)
                         \o FactorRows("inv-1", Today - 1, f1)
                         \o FactorRows("inv-2", Today - 1, f2)
    /\ battery_readings = <<>>
    /\ \E d1 \in {<<>>,
                   <<ConsumptionRow("inv-1", Today - 1, Frac(7, 200), Frac(91, 40),
                                    Frac(300, 1))>>,
                   <<ConsumptionRow("inv-1", Today - 1, Frac(-1, 200), Frac(-13, 40),
                                    Frac(-60, 1))>>},
          d2 \in {<<>>,
                  <<ConsumptionRow("inv-2", Today - 1, Frac(1, 8), Frac(65, 8),
                                   Frac(500, 1))>>} :
          daily_consumption = d1 \o d2
    /\ runs = <<>>

\* The periods a caller asks for: the default of a type, or explicit dates
\* (of three days, of one day, and two with the start after the end).
StatisticsPeriods ==
    {<<t, NoDate, NoDate>> : t \in {"DAILY", "WEEKLY", "MONTHLY"}}
        \cup {<<"CUSTOM", Today - 2, Today>>, <<"CUSTOM", Today - 1, Today - 1>>,
              <<"CUSTOM", Today, Today - 1>>, <<"CUSTOM", Today, Today - 2>>}

NextStatistics ==
    \E device \in {NoneId, "inv-1", "inv-2"}, period \in StatisticsPeriods :
        GenerateReportCall("c1", period[1], device, period[2], period[3])

SpecStatistics == InitStatistics /\ [][NextStatistics]_vars

----------------------------------------------------------------------------
\* Ingestion of measurements (PowerReadingViewSet, BatteryReadingViewSet).

\* serializer.save(device=device, device_identifier=device_id); timestamp is
\* read-only and defaults to now
NewReading(device, device_identifier) ==
    [device |-> device, device_identifier |-> device_identifier, date |-> Today,
     power |-> 120, power_factor |-> 90]

NewBatteryReading(device, device_identifier) ==
    [device |-> device, device_identifier |-> device_identifier, date |-> Today]

IngestResponse(op, code, device_ids, device_name) ==
    [op |-> op, code |-> code, device_ids |-> device_ids, device_name |-> device_name]

\* PowerReadingViewSet.create
PowerReadingCreate(device_id, device_name, valid) ==
    /\ pc = "idle"
    /\ Len(readings) < MaxReadings
    /\ LET dev == PayloadDeviceId(device_id)
       IN  /\ devices' = GetOrCreateDevice(devices, dev, PayloadDeviceName(device_name))
           /\ IF valid
              THEN /\ readings' = Append(readings, NewReading(dev, dev))
                   /\ response' = IngestResponse("reading_create", 201, {dev}, PayloadDeviceName(device_name))
              ELSE /\ response' = IngestResponse("reading_create", 400, {dev}, PayloadDeviceName(device_name))
                   /\ UNCHANGED readings
    /\ UNCHANGED <<settings, clients, alerts, reports, messages, twilio, smtp, pc, frame,
                   battery_readings, daily_consumption, runs>>

\* PowerReadingViewSet.bulk_create: the serializer saves the rows as they are;
\* no Device is looked up or created, and the rows have no device.
BulkCreate(device_ids, valid) ==
    /\ pc = "idle"
    /\ Len(readings) + Len(device_ids) <= MaxReadings
    /\ LET ids == [k \in 1..Len(device_ids) |-> PayloadDeviceId(device_ids[k])]
       IN  IF valid
           THEN /\ readings' = readings \o [k \in 1..Len(ids) |-> NewReading(NoneId, ids[k])]
                /\ response' = IngestResponse("bulk_create", 201, Range(ids), NoneId)
           ELSE /\ response' = IngestResponse("bulk_create", 400, Range(ids), NoneId)
                /\ UNCHANGED readings
    /\ UNCHANGED <<settings, clients, devices, alerts, reports, messages, twilio, smtp,
                   pc, frame, battery_readings, daily_consumption, runs>>

\* BatteryReadingViewSet.create
BatteryReadingCreate(device_id, device_name, valid) ==
    /\ pc = "idle"
    /\ Len(battery_readings) < MaxBattery
    /\ LET dev == PayloadDeviceId(device_id)
       IN  /\ devices' = GetOrCreateDevice(devices, dev, PayloadDeviceName(device_name))
           /\ IF valid
              THEN /\ battery_readings' = Append(battery_readings, NewBatteryReading(dev, dev))
                   /\ response' = IngestResponse("battery_create", 201, {dev}, PayloadDeviceName(device_name))
              ELSE /\ response' = IngestResponse("battery_create", 400, {dev}, PayloadDeviceName(device_name))
                   /\ UNCHANGED battery_readings
    /\ UNCHANGED <<settings, clients, alerts, reports, messages, twilio, smtp, pc, frame,
                   readings, daily_consumption, runs>>

\* The device identifiers and names of the payloads: absent, known, unknown.
PayloadIds == {NoneId, "inv-1", "ghost"}

PayloadNames == {NoneId, "Pump"}

InitIngest ==
    /\ settings = [wa_enabled |-> FALSE, email_enabled |-> FALSE]
    /\ clients = [c \in {"c1"} |-> GenerateClient("a@x", {"inv-1"})]
    /\ devices = <<[device_id |-> "inv-1", device_name |-> "Inverter"]>>
    /\ alerts = <<>>
    /\ reports = <<>>
    /\ messages = <<>>
    /\ twilio = <<>>
    /\ smtp = <<>>
    /\ pc = "idle"
    /\ frame = NoFrame
    /\ response = NoResponse
    /\ NoTelemetry

NextIngest ==
    \/ \E device_id \in PayloadIds, device_name \in PayloadNames, valid \in BOOLEAN :
           PowerReadingCreate(device_id, device_name, valid)
    \/ \E device_ids \in {<<a>> : a \in PayloadIds} \cup {<<"inv-1", "ghost">>},
          valid \in BOOLEAN :
           BulkCreate(device_ids, valid)
    \/ \E device_id \in PayloadIds, device_name \in PayloadNames, valid \in BOOLEAN :
           BatteryReadingCreate(device_id, device_name, valid)
    \/ \E device_id \in PayloadIds, device_name \in PayloadNames, valid \in BOOLEAN :
           AlertCreate(device_id, device_name, "INFO", valid)

SpecIngest == InitIngest /\ [][NextIngest]_vars

----------------------------------------------------------------------------
\* Properties.

MessageIds == 1..Len(messages)

InProviderCall == pc \in {"wa_alert", "wa_report"}

\* What _send_message stores in response_data for provider call k.
ProviderAnswer(k) ==
    IF twilio[k].ok THEN [kind |-> "sent", sid |-> k, status |-> "queued"]
    ELSE [kind |-> "error", error |-> k]

\* C1: every send attempt of _send_message has exactly one WhatsAppMessage
\* record; the record is PENDING exactly while the provider call is in
\* progress, and once the call is over it is SENT with the provider's sid and
\* status if the call returned, FAILED with the error text if it raised.
C1_OneFinalRecordPerSend ==
    /\ \A k \in 1..Len(twilio) :
          /\ Cardinality({i \in MessageIds : messages[i].response_data = ProviderAnswer(k)}) = 1
          /\ \A i \in MessageIds :
                messages[i].response_data = ProviderAnswer(k) =>
                    /\ messages[i].status = IF twilio[k].ok THEN "SENT" ELSE "FAILED"
                    /\ messages[i].recipient = twilio[k].to
    /\ \A i \in MessageIds :
          /\ messages[i].response_data # NoData =>
                \E k \in 1..Len(twilio) : messages[i].response_data = ProviderAnswer(k)
          /\ messages[i].status = "PENDING" <=> (InProviderCall /\ frame.msg = i)
          /\ messages[i].status \in {"PENDING", "SENT", "FAILED"}
    /\ Cardinality({i \in MessageIds :
                       messages[i].status = "PENDING" \/ messages[i].response_data # NoData})
           = Len(twilio) + (IF InProviderCall THEN 1 ELSE 0)

\* C1 witness: no send is in progress, one record was sent and one failed.
C1_Witness ==
    /\ pc = "idle"
    /\ \E i, j \in MessageIds :
          /\ messages[i].status = "SENT" /\ messages[i].response_data.kind = "sent"
          /\ messages[j].status = "FAILED" /\ messages[j].response_data.kind = "error"

StatusRank(status) ==
    IF status = "ACTIVE" THEN 0 ELSE IF status = "ACKNOWLEDGED" THEN 1 ELSE 2

\* C2: no step moves an alert's status backward in the order
\* ACTIVE < ACKNOWLEDGED < RESOLVED.
C2_StatusOnlyForward ==
    [][\A i \in AlertIds : StatusRank(alerts'[i].status) >= StatusRank(alerts[i].status)]_vars

\* The alert ingestion endpoint has just stored an alert and returned.
AfterAlertCreate == pc = "idle" /\ response.op = "alert_create" /\ response.code = 201

MessagesOf(alert_id) == {i \in MessageIds : messages[i].alert = alert_id}

\* The clients that are to get the alerts of a device.
EligibleClients(device_id) ==
    {c \in DOMAIN clients :
        /\ device_id \in clients[c].devices
        /\ clients[c].is_active
        /\ clients[c].receive_whatsapp_alerts
        /\ Truthy(clients[c].whatsapp_number)}

\* C5 as stated: a created alert has a WhatsApp record if and only if its
\* severity is WARNING or CRITICAL.
C5_RecordIffWarningOrCritical ==
    AfterAlertCreate =>
        (MessagesOf(response.alert) # {}
            <=> alerts[response.alert].severity \in {"WARNING", "CRITICAL"})

\* C5 amended: an INFO alert has no WhatsApp record; a WARNING or CRITICAL
\* alert has exactly one (mock, SENT) record when the transport is
\* unconfigured and, when it is configured, exactly one record per active
\* client attached to its device with WhatsApp alerts on and a number, and no
\* other record.
C5_RecordsPerSeverity ==
    AfterAlertCreate =>
        LET alert == alerts[response.alert]
            ms == MessagesOf(response.alert)
        IN  /\ alert.severity = "INFO" => ms = {}
            /\ (alert.severity \in {"WARNING", "CRITICAL"} /\ ~settings.wa_enabled) =>
                  /\ Cardinality(ms) = 1
                  /\ \A i \in ms : messages[i].status = "SENT" /\ messages[i].client = NoneId
            /\ (alert.severity \in {"WARNING", "CRITICAL"} /\ settings.wa_enabled) =>
                  /\ \A i \in ms : messages[i].client \in EligibleClients(alert.device)
                  /\ \A c \in EligibleClients(alert.device) :
                        Cardinality({i \in ms : messages[i].client = c}) = 1

\* C5 witness: a WARNING alert was created with the transport configured and
\* two clients to notify, and has its two records.
C5_Witness ==
    /\ AfterAlertCreate
    /\ settings.wa_enabled
    /\ alerts[response.alert].severity = "WARNING"
    /\ Cardinality(MessagesOf(response.alert)) = 2

\* A send request (EnergyReportViewSet.send) has just returned.
AfterSend == pc = "idle" /\ response.op = "send"

\* C3: with the transport unconfigured, a WARNING or CRITICAL alert and a
\* report sent over WhatsApp each get a record with status SENT, and for the
\* report the channel result is 'sent' and sent_via_whatsapp is true.
C3_UnconfiguredStillRecordsSent ==
    /\ (AfterAlertCreate /\ ~settings.wa_enabled
            /\ alerts[response.alert].severity \in {"WARNING", "CRITICAL"}) =>
          \E i \in MessagesOf(response.alert) : messages[i].status = "SENT"
    /\ (AfterSend /\ ~settings.wa_enabled /\ response.req.send_whatsapp
            /\ clients[reports[response.report].client].receive_whatsapp_alerts) =>
          /\ response.results.whatsapp = "sent"
          /\ reports[response.report].sent_via_whatsapp
          /\ \E i \in MessageIds :
                /\ messages[i].message_type = "report"
                /\ messages[i].client = reports[response.report].client
                /\ messages[i].status = "SENT"

\* C4: a requested channel that the client disabled, or for which the client
\* has no contact field, has the result 'skipped' (and so never 'failed').
C4_SkippedNeverFailed ==
    AfterSend =>
        LET client == clients[reports[response.report].client]
        IN  /\ (response.req.send_email
                  /\ (~client.receive_email_reports \/ client.email = "")) =>
                  response.results.email = "skipped"
            /\ (response.req.send_whatsapp
                  /\ (~client.receive_whatsapp_alerts \/ ~Truthy(client.whatsapp_number))) =>
                  response.results.whatsapp = "skipped"

\* C6: no request ends with a propagated exception; a provider call that
\* raises leaves its record FAILED with the error text; a mail transport that
\* raises gives the e-mail channel the result 'failed'; a send request whose
\* provider call is over returns its per-channel results, and a generate
\* request that has created a report returns 201 with that report, whatever
\* the transports did.
C6_TransportFailureNotPropagated ==
    [][/\ response'.code # 500
       /\ (Len(twilio') > Len(twilio) /\ ~twilio'[Len(twilio')].ok) =>
             /\ messages'[frame.msg].status = "FAILED"
             /\ messages'[frame.msg].response_data = [kind |-> "error", error |-> Len(twilio')]
       /\ (Len(smtp') > Len(smtp) /\ ~smtp'[Len(smtp')].ok) =>
             /\ pc' = "wa_report" => frame'.cur.results.email = "failed"
             /\ (pc' = "idle" /\ response'.op = "send") => response'.results.email = "failed"
       /\ (pc = "wa_report" /\ pc' = "idle" /\ frame.op = "send") =>
             /\ response'.op = "send" /\ response'.code = 200
             /\ response'.results.whatsapp \in {"sent", "failed"}
       /\ (pc' = "idle" /\ \/ pc = "wa_report" /\ frame.op = "generate"
                           \/ pc = "idle" /\ Len(reports') > Len(reports)) =>
             /\ response'.op = "generate" /\ response'.code = 201
             /\ response'.report = Len(reports')
      ]_vars

\* C6 witness: a generate request returned 201 although both the mail
\* transport and the WhatsApp provider raised.
C6_Witness ==
    /\ pc = "idle" /\ response.op = "generate" /\ response.code = 201
    /\ \E k \in 1..Len(smtp) : ~smtp[k].ok
    /\ \E i \in MessageIds : messages[i].status = "FAILED"

\* C7: after a send request, each channel's result is decided by that channel
\* alone (requested and enabled by the client, its transport configured, its
\* transport's answer), the WhatsApp send is made whatever the e-mail result
\* is, and each delivery flag is set only by a send on its own channel.
C7_ChannelsIndependent ==
    /\ AfterSend =>
          LET id == response.report
              client == clients[reports[id].client]
              wa == response.req.send_whatsapp /\ client.receive_whatsapp_alerts
              em == response.req.send_email /\ client.receive_email_reports
          IN  /\ response.results.whatsapp =
                    IF ~wa THEN "none" ELSE IF settings.wa_enabled THEN "sent" ELSE "failed"
              /\ (wa /\ settings.wa_enabled) =>
                    /\ messages[Len(messages)].message_type = "report"
                    /\ messages[Len(messages)].client = reports[id].client
                    /\ messages[Len(messages)].status \in {"SENT", "FAILED"}
              /\ response.results.email =
                    IF ~em THEN "none"
                    ELSE IF ~settings.email_enabled THEN "sent"
                    ELSE IF client.email = "" THEN "failed"
                    ELSE IF smtp[Len(smtp)].ok THEN "sent" ELSE "failed"
              /\ response.results.whatsapp = "sent" => reports[id].sent_via_whatsapp
              /\ response.results.email = "sent" => reports[id].sent_via_email
    /\ \A id \in ReportIds :
          /\ reports[id].sent_via_whatsapp =>
                \E i \in MessageIds : /\ messages[i].message_type = "report"
                                      /\ messages[i].client = reports[id].client
          /\ reports[id].sent_via_email =>
                \/ ~settings.email_enabled
                \/ \E k \in 1..Len(smtp) : smtp[k].ok

\* C7 witness: both channels were requested, the e-mail failed and the
\* WhatsApp send was made all the same.
C7_Witness ==
    /\ AfterSend
    /\ response.req.send_email /\ response.req.send_whatsapp
    /\ response.results.email = "failed"
    /\ response.results.whatsapp = "sent"
    /\ ~reports[response.report].sent_via_email
    /\ reports[response.report].sent_via_whatsapp

\* The fields of a report that are not delivery flags.
Content(report) ==
    <<report.client, report.device, report.report_type, report.start_date,
      report.end_date, report.report_data>>

AfterGenerate == pc = "idle" /\ response.op \in {"generate", "client_generate"}

\* C9: a generation request for an existing client with no devices and no
\* explicit device ends 400 'Failed to generate report', a request for a
\* client that does not exist ends 404, and no report, WhatsApp record or mail
\* ever exists for a client without devices.
C9_NoDevicesOutcome ==
    /\ AfterGenerate =>
          /\ response.req.client_id \notin DOMAIN clients =>
                response.code = 404 /\ response.report = 0
          /\ (/\ response.req.client_id \in DOMAIN clients
              /\ response.req.device_id = NoneId
              /\ clients[response.req.client_id].devices = {}) =>
                /\ response.code = 400
                /\ response.error = "Failed to generate report"
                /\ response.report = 0
    /\ \A id \in ReportIds : clients[reports[id].client].devices # {}
    /\ \A i \in MessageIds :
          messages[i].client \in DOMAIN clients =>
              clients[messages[i].client].devices # {}
    /\ \A k \in 1..Len(smtp) :
          \A c \in DOMAIN clients : smtp[k].to = clients[c].email => clients[c].devices # {}

\* C9 witness: the client without devices was refused after the client with a
\* device got a report and its notifications.
C9_Witness ==
    /\ AfterGenerate
    /\ response.req.client_id = "c2" /\ response.req.device_id = NoneId
    /\ response.code = 400
    /\ Len(reports) = 1 /\ Len(messages) >= 1 /\ Len(smtp) >= 1

\* C10: every stored report has start_date <= end_date.
C10_StartNotAfterEnd ==
    \A id \in ReportIds : reports[id].start_date <= reports[id].end_date

\* generate_report was called and has returned a report.
AfterGenerateReportCall ==
    pc = "idle" /\ response.op = "generate_report" /\ response.report # 0

\* The call did not give both dates.
DatesMissing == response.req.start_date = NoDate \/ response.req.end_date = NoDate

\* C11: a report generated without explicit dates has the period of its type
\* relative to today: DAILY [today, today], WEEKLY [today-6, today] (7 days),
\* MONTHLY [today-29, today] (30 days).
C11_DefaultPeriodByType ==
    (AfterGenerateReportCall /\ DatesMissing) =>
        LET report == reports[response.report]
            period == <<report.start_date, report.end_date,
                        report.report_data.days_in_period>>
        IN  /\ report.report_type = "DAILY" => period = <<Today, Today, 1>>
            /\ report.report_type = "WEEKLY" => period = <<Today - 6, Today, 7>>
            /\ report.report_type = "MONTHLY" => period = <<Today - 29, Today, 30>>

\* C11 witness: a WEEKLY report was generated with only one of the dates given.
C11_Witness ==
    /\ AfterGenerateReportCall
    /\ response.req.report_type = "WEEKLY"
    /\ response.req.start_date # NoDate /\ response.req.end_date = NoDate
    /\ reports[response.report].report_type = "WEEKLY"

\* C12: a CUSTOM generation that lacks the start date, the end date or both
\* produces no report.
C12_CustomNeedsDates ==
    (pc = "idle" /\ response.op = "generate_report"
        /\ response.req.report_type = "CUSTOM" /\ DatesMissing) =>
        response.report = 0

\* The DailyConsumption rows of a device and date.
DayRecords(device, date) ==
    {i \in DOMAIN daily_consumption :
        /\ daily_consumption[i].device = device
        /\ daily_consumption[i].date = date}

\* The (device, date) pairs the runs are about.
AggregatedPairs == {<<runs[r].device, Today - k>> : r \in RunIds, k \in 1..MaxDays}

AtMostOnePerDeviceDate ==
    \A pair \in AggregatedPairs : Cardinality(DayRecords(pair[1], pair[2])) <= 1

\* C13: aggregation can be run again for the same device and dates: no run
\* ends in an error, and there is at most one record per device and date.
C13_RerunIsNoOp ==
    /\ \A r \in RunIds : runs[r].pc # "raised"
    /\ AtMostOnePerDeviceDate

\* C14: in every state reached by interleaved aggregation runs there is at
\* most one DailyConsumption record per (device, date); every record was
\* written by one successful create, and a run that was refused was refused
\* for a record that is in the table.
C14_UniquePerDeviceDate ==
    /\ AtMostOnePerDeviceDate
    /\ \A i, j \in DOMAIN daily_consumption :
          (/\ daily_consumption[i].device_identifier = daily_consumption[j].device_identifier
           /\ daily_consumption[i].date = daily_consumption[j].date) => i = j
    /\ \A r \in RunIds :
          runs[r].pc = "raised" =>
              /\ DayRecords(runs[r].device, runs[r].row.date) # {}
              /\ \A i \in DayRecords(runs[r].device, runs[r].row.date) :
                    daily_consumption[i] = runs[r].row

\* C14 witness: the run started first was overtaken: it has written nothing
\* and was refused, the record of the date being the other run's.
C14_Witness ==
    /\ Len(runs) >= 2
    /\ runs[1].pc = "raised" /\ runs[1].count = 0
    /\ runs[2].count >= 1
    /\ Cardinality(DayRecords(runs[1].device, runs[1].row.date)) = 1

\* C15: once a run has returned, each of its dates without readings has a
\* record with consumption, cost, peak and minimum all 0.
C15_ZeroRecordForEmptyDay ==
    \A r \in RunIds :
        runs[r].pc = "done" =>
            \A k \in 1..runs[r].days :
                DayReadings(runs[r].device, Today - k) = <<>> =>
                    \E i \in DayRecords(runs[r].device, Today - k) :
                        /\ daily_consumption[i].total_consumption = Zero
                        /\ daily_consumption[i].total_cost = Zero
                        /\ daily_consumption[i].peak_power = Zero
                        /\ daily_consumption[i].min_power = Zero

\* C16: the record of a device and day with readings has total_consumption =
\* (sum of the samples x 5/60) / 1000, peak_power and min_power the largest
\* and smallest sample, avg_power their mean, and total_cost =
\* total_consumption x the tariff's rate.
C16_DayRecordValues ==
    \A i \in DOMAIN daily_consumption :
        LET row == daily_consumption[i]
            powers == DayReadings(row.device, row.date)
            sum == SumSeq(powers)
        IN  /\ powers # <<>>
            /\ row.total_consumption.num * 12000 = sum * row.total_consumption.den
            /\ \E k \in 1..Len(powers) : row.peak_power = Frac(powers[k], 1)
            /\ \E k \in 1..Len(powers) : row.min_power = Frac(powers[k], 1)
            /\ \A k \in 1..Len(powers) :
                  /\ FracLeq(Frac(powers[k], 1), row.peak_power)
                  /\ FracLeq(row.min_power, Frac(powers[k], 1))
            /\ row.avg_power.num * Len(powers) = sum * row.avg_power.den
            /\ row.total_cost.num * row.total_consumption.den =
                  StandardRate * row.total_consumption.num * row.total_cost.den

\* C16 witness: a run has written the record of a day with two samples,
\* 120 W and 300 W.
C16_Witness ==
    \E i \in DOMAIN daily_consumption :
        /\ DayReadings(daily_consumption[i].device, daily_consumption[i].date) = <<300, 120>>
        /\ daily_consumption[i].peak_power = Frac(300, 1)
        /\ daily_consumption[i].min_power = Frac(120, 1)
        /\ daily_consumption[i].avg_power = Frac(210, 1)
        /\ daily_consumption[i].total_consumption = Frac(7, 200)

\* The device set of a stored report.
DeviceSet(report) ==
    IF report.device # NoneId THEN {report.device} ELSE clients[report.client].devices

\* The rows of a table that are of the report's devices and period.
RowsOf(report, table, date_field) ==
    {i \in DOMAIN table :
        /\ table[i].device \in DeviceSet(report)
        /\ report.start_date <= table[i][date_field]
        /\ table[i][date_field] <= report.end_date}

RECURSIVE SumOfFactors(_)
SumOfFactors(ids) ==
    IF ids = {} THEN 0
    ELSE LET i == CHOOSE x \in ids : TRUE
         IN  readings[i].power_factor + SumOfFactors(ids \ {i})

\* C17: avg_power_factor of a report is the mean of the power-factor samples
\* of all the readings of its devices and period taken together, and 0 when
\* there is none.
C17_PooledPowerFactor ==
    \A id \in ReportIds :
        LET report == reports[id]
            samples == RowsOf(report, readings, "date")
        IN  IF samples = {} THEN report.avg_power_factor = Zero
            ELSE report.avg_power_factor.num * Cardinality(samples)
                     = SumOfFactors(samples) * report.avg_power_factor.den

\* C17 witness: a report over two devices, one with the samples 0.80 and 1.00
\* and one with 0.60, has the average 0.80.
C17_Witness ==
    \E id \in ReportIds :
        /\ reports[id].device = NoneId
        /\ Cardinality(RowsOf(reports[id], readings, "date")) = 3
        /\ reports[id].avg_power_factor = Frac(80, 1)

\* The per-device entries of a report.
Breakdown(report) == report.report_data.devices

RECURSIVE SumEntries(_, _)
SumEntries(entries, field) ==
    IF entries = <<>> THEN Zero
    ELSE FracAdd(Head(entries)[field], SumEntries(Tail(entries), field))

RECURSIVE CountEntries(_, _)
CountEntries(entries, field) ==
    IF entries = <<>> THEN 0
    ELSE Head(entries)[field] + CountEntries(Tail(entries), field)

\* What C18 says of a report, but for its peak power.
CombinesDevices(report) ==
    LET entries == Breakdown(report)
    IN  /\ Len(entries) = Cardinality(DeviceSet(report))
        /\ \A d \in DeviceSet(report) :
              Cardinality({k \in 1..Len(entries) : entries[k].device_id = d}) = 1
        /\ report.total_consumption_kwh = SumEntries(entries, "consumption")
        /\ report.total_cost = SumEntries(entries, "cost")
        /\ report.uptime_hours
              = Frac(5 * Cardinality(RowsOf(report, readings, "date")), 60)
        /\ report.total_alerts = CountEntries(entries, "alerts")
        /\ report.total_alerts
              = Cardinality(RowsOf(report, alerts, "timestamp"))
        /\ report.critical_alerts = CountEntries(entries, "critical_alerts")

\* The report's peak is the peak of one of its devices and no device's peak
\* is above it.
PeakIsMaximum(report) ==
    /\ \E k \in 1..Len(Breakdown(report)) :
          report.peak_power = Breakdown(report)[k].peak_power
    /\ \A k \in 1..Len(Breakdown(report)) :
          FracLeq(Breakdown(report)[k].peak_power, report.peak_power)

\* C18 as stated: a report's totals are the sums of the per-device values,
\* its peak_power the maximum per-device peak, its uptime the reading count
\* x 5 minutes, its alert counts the sums of the per-device counts, with one
\* breakdown entry per device of its device set.
C18_CombinesWithMaximumPeak ==
    \A id \in ReportIds : CombinesDevices(reports[id]) /\ PeakIsMaximum(reports[id])

\* C18 amended: the same, with peak_power the maximum of 0 and the per-device
\* peaks.
C18_CombinesWithPeakFromZero ==
    \A id \in ReportIds :
        /\ CombinesDevices(reports[id])
        /\ FracLeq(Zero, reports[id].peak_power)
        /\ \/ reports[id].peak_power = Zero
           \/ \E k \in 1..Len(Breakdown(reports[id])) :
                 reports[id].peak_power = Breakdown(reports[id])[k].peak_power
        /\ \A k \in 1..Len(Breakdown(reports[id])) :
              FracLeq(Breakdown(reports[id])[k].peak_power, reports[id].peak_power)

\* C18 witness: a report over the two devices, each with a daily record, a
\* reading and an alert in the period.
C18_Witness ==
    \E id \in ReportIds :
        /\ reports[id].device = NoneId
        /\ Len(Breakdown(reports[id])) = 2
        /\ reports[id].peak_power = Frac(500, 1)
        /\ reports[id].total_consumption_kwh = Frac(4, 25)
        /\ reports[id].total_alerts = 2
        /\ reports[id].uptime_hours = Frac(1, 4)

\* C19: avg_daily_consumption of a report is total_consumption / D with
\* D = end_date - start_date + 1; where D is not positive there is nothing
\* to divide, the total and the average being both 0.
C19_AverageOverInclusiveDays ==
    \A id \in ReportIds :
        LET report == reports[id]
            D == report.end_date - report.start_date + 1
        IN  /\ report.report_data.days_in_period = D
            /\ D > 0 => report.avg_daily_consumption
                            = FracDiv(report.total_consumption_kwh, D)
            /\ D <= 0 => /\ report.total_consumption_kwh = Zero
                         /\ report.avg_daily_consumption = Zero

\* C19 witness: a report of three days with a total of 0.16 kWh.
C19_Witness ==
    \E id \in ReportIds :
        /\ reports[id].end_date - reports[id].start_date = 2
        /\ reports[id].total_consumption_kwh = Frac(4, 25)
        /\ reports[id].avg_daily_consumption = Frac(4, 75)

\* The identifiers of the rows the request served by a step has stored.
Ingested(resp) ==
    IF resp.code # 201 THEN {}
    ELSE IF resp.op = "alert_create" THEN {alerts'[resp.alert].device_identifier}
    ELSE resp.device_ids

\* C20: a step that ingests a power reading, battery reading or alert leaves
\* a Device for every identifier of its payload, named as the payload says or
\* 'Unknown Device' if it was unknown; no step creates a Device for an
\* identifier that had one, and there is exactly one Device per identifier.
C20_UpsertOnIngest ==
    [][/\ \A id \in Ingested(response') :
             /\ \E i \in DOMAIN devices' : devices'[i].device_id = id
             /\ (id \notin DeviceIds /\ response'.op \in {"reading_create", "battery_create"}) =>
                   \E i \in DOMAIN devices' :
                       devices'[i] = [device_id |-> id, device_name |-> response'.device_name]
       /\ \A i \in DOMAIN devices' :
             i \notin DOMAIN devices =>
                 /\ devices'[i].device_id \notin DeviceIds
                 /\ devices'[i].device_name \in {"Unknown Device"} \cup (PayloadNames \ {NoneId})
       /\ \A i \in DOMAIN devices : devices'[i] = devices[i]
       /\ \A i, j \in DOMAIN devices' :
             devices'[i].device_id = devices'[j].device_id => i = j
      ]_vars

\* C21: a step that answers a single-row ingestion request (power reading,
\* battery reading, alert) with 400 has written nothing: no reading, battery
\* reading or alert is stored and the Device table is as it was.
C21_RejectedBeforeAnyWrite ==
    [][(/\ response'.code = 400
        /\ response'.op \in {"reading_create", "battery_create", "alert_create"}) =>
           /\ readings' = readings
           /\ battery_readings' = battery_readings
           /\ alerts' = alerts
           /\ devices' = devices
      ]_vars

----------------------------------------------------------------------------
\* An operator's request served while another request waits for the provider:
\* the waiting request keeps the Alert objects it loaded (frame.copies) and
\* alert.save() writes every field of its copy.

\* AlertViewSet.acknowledge (resolve = FALSE) or AlertViewSet.resolve, served
\* while a send is in flight
OperatorDuringSend(id, resolve) ==
    /\ pc = "wa_alert"
    /\ id \in AlertIds
    /\ alerts' = [alerts EXCEPT ![id] = IF resolve THEN ResolveAlert(alerts[id])
                                                    ELSE AcknowledgeAlert(alerts[id])]
    /\ response' = [op |-> IF resolve THEN "resolve" ELSE "acknowledge", code |-> 200]
    /\ UNCHANGED <<telemetry, settings, clients, devices, reports, messages, twilio, smtp, pc, frame>>

\* AlertAdmin.mark_acknowledged or mark_resolved, served while a send is in
\* flight
AdminDuringSend(S, resolve) ==
    /\ pc = "wa_alert"
    /\ S # {} /\ S \subseteq AlertIds
    /\ alerts' = [i \in AlertIds |->
                     IF i \notin S THEN alerts[i]
                     ELSE IF resolve THEN UpdateResolved(alerts[i])
                     ELSE UpdateAcknowledged(alerts[i])]
    /\ response' = [op |-> "admin", code |-> 302]
    /\ UNCHANGED <<telemetry, settings, clients, devices, reports, messages, twilio, smtp, pc, frame>>

NextAlertRace ==
    \/ NextAlert
    \/ \E id \in AlertIds, resolve \in BOOLEAN : OperatorDuringSend(id, resolve)
    \/ \E S \in SUBSET AlertIds, resolve \in BOOLEAN : AdminDuringSend(S, resolve)

SpecAlertRace == InitAlert /\ [][NextAlertRace]_vars

\* C27: for every alert, resolved_at is set if and only if the alert's status
\* is RESOLVED (alerts are created ACTIVE with resolved_at unset).
C27_ResolvedAtIffResolved ==
    \A id \in AlertIds :
        (alerts[id].resolved_at # NoneId) <=> (alerts[id].status = "RESOLVED")

\* C28: the step in which a send's provider call returns changes no alert's
\* status or resolved_at: whatever an operator set while the send was in
\* flight is still there, and the send changes whatsapp_sent and
\* whatsapp_sent_at only.
C28_SendKeepsOperatorStatus ==
    [][(pc = "wa_alert" /\ twilio' # twilio) =>
           \A id \in AlertIds :
               /\ alerts'[id].status = alerts[id].status
               /\ alerts'[id].resolved_at = alerts[id].resolved_at
      ]_vars

----------------------------------------------------------------------------
\* WhatsAppService.send_alert_message called for a stored alert, for one named
\* client or for the clients of the alert's device.

\* send_alert_message(alert, client) up to its first provider call.  The
\* response is what the call returns: the records it created, which are the
\* next records of the table since no other request runs meanwhile.
SendAlertMessage(id, client_id) ==
    /\ pc = "idle"
    /\ id \in AlertIds
    /\ LET rs == GetAlertRecipients(alerts[id], client_id)
           jobs == [i \in 1..Len(rs) |->
                       [alert |-> id, phone |-> rs[i].phone, client |-> rs[i].client]]
           n == IF settings.wa_enabled THEN Len(jobs) ELSE 1
           resp == [op |-> "send_alert_message", alert |-> id, client |-> client_id,
                    results |-> [i \in 1..n |-> Len(messages) + i]]
       IN  /\ Len(messages) + n <= MaxMessages
           /\ IF ~settings.wa_enabled
              THEN /\ messages' = Append(messages, MockMessage(id, client_id))
                   /\ response' = resp
                   /\ UNCHANGED <<pc, frame>>
              ELSE IF jobs = <<>>
              THEN /\ response' = resp
                   /\ UNCHANGED <<messages, pc, frame>>
              ELSE /\ messages' = Append(messages,
                          PendingMessage(jobs[1].phone, "alert", id, jobs[1].client))
                   /\ pc' = "wa_alert"
                   /\ frame' = [op |-> resp.op, copies |-> [i \in {id} |-> alerts[i]],
                                jobs |-> jobs, msg |-> Len(messages) + 1, resp |-> resp]
                   /\ response' = response
    /\ UNCHANGED <<telemetry, settings, clients, devices, alerts, reports, twilio, smtp>>

NextAlertService ==
    \/ \E device_id \in {NoneId, "inv-1"} : AlertCreate(device_id, NoneId, "INFO", TRUE)
    \/ \E id \in AlertIds, client_id \in {NoneId, "c1", "c2"} : SendAlertMessage(id, client_id)
    \/ \E ok \in BOOLEAN : AlertSendReturns(ok)

SpecAlertService == InitAlert /\ [][NextAlertService]_vars

\* send_alert_message has returned.
AfterSendAlertMessage == pc = "idle" /\ response.op = "send_alert_message"

\* The clients send_alert_message(alert, client) is to write to.
ClientsToNotify(alert, client_id) ==
    IF client_id # NoneId
    THEN {c \in {client_id} :
             clients[c].receive_whatsapp_alerts /\ Truthy(clients[c].whatsapp_number)}
    ELSE EligibleClients(alert.device)

\* The records a finished send_alert_message call created.
C25_RecordsOfCall ==
    (AfterSendAlertMessage /\ settings.wa_enabled) =>
        LET notify == ClientsToNotify(alerts[response.alert], response.client)
            rs == Range(response.results)
        IN  /\ rs \subseteq MessageIds
            /\ \A i \in rs :
                  /\ messages[i].alert = response.alert
                  /\ messages[i].message_type = "alert"
                  /\ messages[i].client \in notify
            /\ \A c \in notify : Cardinality({i \in rs : messages[i].client = c}) = 1
            /\ notify = {} => rs = {}

\* C25: with the transport configured, a send_alert_message call creates
\* exactly one record for each client that has WhatsApp alerts on and a
\* number (and, when no client is named, is active and attached to the
\* alert's device) and no other record; a call with no such client changes no
\* record and no alert, so whatsapp_sent stays as it was.
C25_RecordsOnlyForEligibleClients ==
    [][/\ C25_RecordsOfCall'
       /\ Len(messages') > Len(messages) =>
             /\ Len(messages') = Len(messages) + 1
             /\ \E resp \in {IF pc' = "idle" THEN response' ELSE frame'.resp} :
                   Len(messages') \in Range(resp.results)
       /\ (/\ settings.wa_enabled
           /\ pc = "idle" /\ pc' = "idle"
           /\ response'.op = "send_alert_message"
           /\ ClientsToNotify(alerts[response'.alert], response'.client) = {}) =>
               /\ messages' = messages
               /\ alerts' = alerts
      ]_vars

\* C25 witness: after a call for a named client has left a record, a call for
\* the device's clients found nobody to write to: it returned no record and
\* the alert's whatsapp_sent is still false.
C25_Witness ==
    /\ AfterSendAlertMessage
    /\ settings.wa_enabled
    /\ response.client = NoneId
    /\ response.results = <<>>
    /\ \E i \in MessageIds : messages[i].client # NoneId /\ messages[i].alert = response.alert
    /\ ~alerts[response.alert].whatsapp_sent

\* C26: the WhatsApp result of send_report is 'sent', and sent_via_whatsapp
\* becomes true, only in a step in which the provider call for the report's
\* summary returned (its record is SENT); when the provider call raised (its
\* record is FAILED) the result is 'failed' and sent_via_whatsapp is as it
\* was, and a send request that made no provider call does not answer 'sent'
\* and changes no sent_via_whatsapp.
C26_SentOnlyWhenRecordSent ==
    [][/\ (pc = "wa_report" /\ Len(twilio') > Len(twilio)) =>
             LET id == frame.cur.id
                 ok == twilio'[Len(twilio')].ok
             IN  /\ messages'[frame.msg].status = IF ok THEN "SENT" ELSE "FAILED"
                 /\ ~ok => reports'[id].sent_via_whatsapp = reports[id].sent_via_whatsapp
                 /\ (~ok /\ pc' = "idle" /\ response'.op = "send") =>
                        response'.results.whatsapp = "failed"
       /\ (pc = "idle" /\ pc' = "idle" /\ response'.op = "send") =>
             /\ response'.results.whatsapp # "sent"
             /\ \A id \in ReportIds :
                   reports'[id].sent_via_whatsapp = reports[id].sent_via_whatsapp
      ]_vars

----------------------------------------------------------------------------
\* Two send_report invocations on one report at the same time: the WhatsApp
\* one waits for the provider holding the report object it loaded
\* (frame.cur.report), the e-mail one loads the stored report, sends and
\* saves.  report.save() writes every field of the object it is called on.

\* EnergyReportViewSet.send with send_email only, served while a WhatsApp
\* send is in flight
SendEmailDuringSend(id, mail_ok) ==
    /\ pc = "wa_report"
    /\ id \in ReportIds
    /\ LET req == [report |-> id, send_whatsapp |-> FALSE, send_email |-> TRUE]
           queue == <<[id |-> id, report |-> reports[id], via_email |-> TRUE,
                       via_whatsapp |-> FALSE, mail_ok |-> mail_ok]>>
           w == RunSendReport(World(reports, queue))
       IN  /\ WithinCaps(queue)
           /\ reports' = w.reports
           /\ smtp' = w.smtp
           /\ response' = Returned(ReportResponse("send", 200, req, "", id), w.results)
    /\ UNCHANGED <<telemetry, settings, clients, devices, alerts, messages, twilio, pc, frame>>

NextReportRace ==
    \/ NextReport
    \/ \E id \in ReportIds, mail_ok \in BOOLEAN : SendEmailDuringSend(id, mail_ok)

SpecReportRace == InitReport /\ [][NextReportRace]_vars

\* C22: once no send is in progress, a report whose client was mailed
\* successfully and has a report record with status SENT has both
\* sent_via_email and sent_via_whatsapp true.
C22_BothFlagsAfterBothSends ==
    pc = "idle" =>
        \A id \in ReportIds :
            (/\ \E k \in 1..Len(smtp) :
                    smtp[k].ok /\ smtp[k].to = clients[reports[id].client].email
             /\ \E i \in MessageIds :
                    /\ messages[i].message_type = "report"
                    /\ messages[i].client = reports[id].client
                    /\ messages[i].status = "SENT") =>
                reports[id].sent_via_email /\ reports[id].sent_via_whatsapp

\* C23: no step changes a record that is SENT or FAILED; a step makes at
\* most one provider call, for the record that is PENDING and to its
\* recipient, and that record is final afterwards, so no record is sent
\* twice; the sends a request still has to make are for different clients of
\* an alert; and an admin resend leaves the records there were and adds new
\* ones.
C23_NoAutomaticRetry ==
    [][/\ \A i \in MessageIds :
             messages[i].status \in {"SENT", "FAILED"} => messages'[i] = messages[i]
       /\ Len(twilio') <= Len(twilio) + 1
       /\ Len(twilio') > Len(twilio) =>
             /\ InProviderCall
             /\ messages[frame.msg].status = "PENDING"
             /\ twilio'[Len(twilio')].to = messages[frame.msg].recipient
             /\ messages'[frame.msg].status \in {"SENT", "FAILED"}
       /\ pc' = "wa_alert" =>
             \A j, k \in DOMAIN frame'.jobs :
                 (/\ frame'.jobs[j].alert = frame'.jobs[k].alert
                  /\ frame'.jobs[j].client = frame'.jobs[k].client) => j = k
       /\ (pc = "idle" /\ messages' # messages) =>
             /\ Len(messages') > Len(messages)
             /\ \A i \in MessageIds : messages'[i] = messages[i]
      ]_vars

\* C23 witness: an admin resend has returned; it left the FAILED record of an
\* alert as it was and created a new record for the same alert and client.
C23_Witness ==
    /\ pc = "idle"
    /\ response.op = "admin"
    /\ \E i, j \in MessageIds :
          /\ i < j
          /\ messages[i].status = "FAILED"
          /\ messages[i].response_data.kind = "error"
          /\ messages[j].alert = messages[i].alert
          /\ messages[j].client = messages[i].client
          /\ messages[j].status = "SENT"

----------------------------------------------------------------------------
\* What the renderers show of a report's alert counts.

\* _generate_alert_section_html (and _create_alert_summary): which of the
\* three alert sections is rendered
AlertSection(report) ==
    IF report.total_alerts = 0 THEN "no_alerts"
    ELSE IF report.critical_alerts = 0 THEN "alerts" ELSE "critical_alerts"

\* C30: in every stored report 0 <= critical_alerts <= total_alerts, and the
\* same holds for each per-device entry of its breakdown; a report rendered
\* with the "no alerts" section has no critical alert.
C30_CriticalWithinTotal ==
    \A id \in ReportIds :
        LET report == reports[id]
            entries == report.report_data.devices
        IN  /\ 0 <= report.critical_alerts
            /\ report.critical_alerts <= report.total_alerts
            /\ AlertSection(report) = "no_alerts" => report.critical_alerts = 0
            /\ \A k \in DOMAIN entries :
                  /\ 0 <= entries[k].critical_alerts
                  /\ entries[k].critical_alerts <= entries[k].alerts

\* C30 witness: a report over two devices with two alerts, one of them
\* critical: one device has a critical alert, the other an alert that is not.
C30_Witness ==
    \E id \in ReportIds :
        LET entries == reports[id].report_data.devices
        IN  /\ reports[id].total_alerts = 2
            /\ reports[id].critical_alerts = 1
            /\ AlertSection(reports[id]) = "critical_alerts"
            /\ Len(entries) = 2
            /\ entries[1].alerts = 1 /\ entries[1].critical_alerts = 1
            /\ entries[2].alerts = 1 /\ entries[2].critical_alerts = 0

----------------------------------------------------------------------------
\* The figures the three renderers show of a report.  A figure is what the
\* format specification prints: the digits of the value at the given number
\* of decimals (the nearest one, a tie going to the even digit) and whether
\* thousands are grouped.

RECURSIVE Pow10(_)
Pow10(d) == IF d = 0 THEN 1 ELSE 10 * Pow10(d - 1)

\* n / d rounded to the nearest integer, half to even (d > 0)
RoundHalfEven(n, d) ==
    LET q == n \div d
        r == n % d
    IN  IF 2 * r < d THEN q
        ELSE IF 2 * r > d THEN q + 1
        ELSE IF q % 2 = 0 THEN q ELSE q + 1

\* f'{x:.{decimals}f}', or f'{x:,.{decimals}f}' when grouped
Format(x, decimals, grouped) ==
    [digits |-> RoundHalfEven(x.num * Pow10(decimals), x.den),
     decimals |-> decimals, grouped |-> grouped]

\* report.avg_power_factor as the number it is (the tables hold hundredths)
PowerFactorValue(report) == Frac(report.avg_power_factor.num, report.avg_power_factor.den * 100)

\* EmailService._generate_html_report
GenerateHtmlReport(report) ==
    [total_consumption |-> Format(report.total_consumption_kwh, 2, FALSE),
     daily_average |-> Format(report.avg_daily_consumption, 2, FALSE),
     total_cost |-> Format(report.total_cost, 2, TRUE),
     peak_power |-> Format(report.peak_power, 0, FALSE),
     avg_power_factor |-> Format(PowerFactorValue(report), 2, FALSE),
     uptime |-> Format(report.uptime_hours, 1, FALSE),
     monthly_cost |-> Format(FracMul(report.total_cost, Frac(43, 10)), 2, TRUE)]

\* EmailService._generate_text_report
GenerateTextReport(report) ==
    [total_consumption |-> Format(report.total_consumption_kwh, 2, FALSE),
     daily_average |-> Format(report.avg_daily_consumption, 2, FALSE),
     total_cost |-> Format(report.total_cost, 2, TRUE),
     peak_power |-> Format(report.peak_power, 0, FALSE),
     avg_power_factor |-> Format(PowerFactorValue(report), 2, FALSE),
     uptime |-> Format(report.uptime_hours, 1, FALSE),
     monthly_cost |-> Format(FracMul(report.total_cost, Frac(43, 10)), 2, TRUE)]

\* PDFReportService: _create_consumption_summary, _create_performance_metrics
\* and _create_cost_analysis
GenerateReportPdf(report) ==
    LET days_in_period == report.end_date - report.start_date + 1
        daily_cost == IF days_in_period > 0 THEN FracDiv(report.total_cost, days_in_period)
                      ELSE Zero
        monthly_projection == FracMul(daily_cost, Frac(30, 1))
    IN  [total_consumption |-> Format(report.total_consumption_kwh, 2, FALSE),
         daily_average |-> Format(report.avg_daily_consumption, 2, FALSE),
         total_cost |-> Format(report.total_cost, 2, TRUE),
         peak_power |-> Format(report.peak_power, 0, FALSE),
         avg_power_factor |-> Format(PowerFactorValue(report), 3, FALSE),
         uptime |-> Format(report.uptime_hours, 1, FALSE),
         monthly_cost |-> Format(monthly_projection, 2, TRUE)]

\* send_report_email builds the two bodies of the mail for a stored report
\* (email_service.py:59-60).
RenderEmail(id) ==
    /\ pc = "idle"
    /\ id \in ReportIds
    /\ response' = [op |-> "email_body", report |-> id,
                    html |-> GenerateHtmlReport(reports[id]),
                    text |-> GenerateTextReport(reports[id])]
    /\ UNCHANGED <<telemetry, settings, clients, devices, alerts, reports, messages,
                   twilio, smtp, pc, frame>>

\* EnergyReportViewSet.download_pdf
DownloadPdf(id) ==
    /\ pc = "idle"
    /\ id \in ReportIds
    /\ response' = [op |-> "download_pdf", code |-> 200, report |-> id,
                    pdf |-> GenerateReportPdf(reports[id])]
    /\ UNCHANGED <<telemetry, settings, clients, devices, alerts, reports, messages,
                   twilio, smtp, pc, frame>>

NextRender ==
    \/ NextStatistics
    \/ \E id \in ReportIds : RenderEmail(id)
    \/ \E id \in ReportIds : DownloadPdf(id)

SpecRender == InitStatistics /\ [][NextRender]_vars

\* The quantities the three renderers have in common.
CommonFigures ==
    {"total_consumption", "daily_average", "total_cost", "peak_power",
     "avg_power_factor", "uptime", "monthly_cost"}

\* The number a figure shows, in thousandths.
Shown(figure) == figure.digits * Pow10(3 - figure.decimals)

\* C24: the HTML body and the text body of a report's mail show the same
\* figures, and the PDF of a report shows, for each common quantity, the same
\* number as the mail of that report.
C24_RenderersShowSameFigures ==
    /\ response.op = "email_body" =>
          \A q \in CommonFigures : response.html[q] = response.text[q]
    /\ response.op = "download_pdf" =>
          \A q \in CommonFigures :
              /\ Shown(response.pdf[q]) = Shown(GenerateHtmlReport(reports[response.report])[q])
              /\ Shown(response.pdf[q]) = Shown(GenerateTextReport(reports[response.report])[q])

====
